---- MODULE Spec2Model ----
(***************************************************************************)
(* JedecDRAMSystem of DRAMSim3 (PIM extension): the PIM transaction queue, *)
(* the control-word decoder and the per-cut compute engine of ClockTick,   *)
(* src/src/dram_system.cc.                                                 *)
(*                                                                         *)
(* A control word (Transaction::addr, uint64_t) is modelled as the set of  *)
(* the positions of its 1 bits, so that shifts and masks are computed as   *)
(* the code computes them and no 64-bit arithmetic is needed.              *)
(* A per-cut std::vector is a sequence; C++ index i is TLA+ index i+1.     *)
(***************************************************************************)
EXTENDS Integers, Sequences, FiniteSets, TLC

\* ------------------------------------------------------------ configuration
\* depth of pim_trans_queue_
pim_trans_queue_depth_ == 2

\* ------------------------------------------------------------------ bounds
\* words a free host submits in one run
MaxSubmits == 3

\* ------------------------------------------------------- bit-level helpers
RECURSIVE Pow2(_)
Pow2(n) == IF n = 0 THEN 1 ELSE 2 * Pow2(n - 1)

\* address >> n
Shr(a, n) == {b - n : b \in {x \in a : x >= n}}

RECURSIVE SumBits(_)
SumBits(S) == IF S = {} THEN 0
              ELSE LET b == CHOOSE x \in S : TRUE
                   IN  Pow2(b) + SumBits(S \ {b})

\* address & ((1 << w) - 1), as a number
Low(a, w) == SumBits({b \in a : b < w})

\* the same, converted to int (two's complement, 32 bits)
LowInt32(a) == IF 31 \in a
               THEN SumBits({b \in a : b < 31}) - Pow2(30) - Pow2(30)
               ELSE SumBits({b \in a : b < 31})

\* address & (1 << i), as a truth value
Bit(a, i) == i \in a

\* the bits of a small natural number
BitsOf(n) == {b \in 0..30 : (n \div Pow2(b)) % 2 = 1}

Min(a, b) == IF a < b THEN a ELSE b
Max(a, b) == IF a > b THEN a ELSE b

\* --------------------------------------------------- the host's control words
\* Words as a host packs them, by the field positions the decoder unpacks.
EncCompute(mask) == {0} \cup {b + 1 : b \in BitsOf(mask)}

EncLoad(cut_no, loadType, dim_value, base_row) ==
    {b + 1 : b \in BitsOf(cut_no)} \cup {b + 5 : b \in BitsOf(loadType)}
    \cup {b + 7 : b \in BitsOf(dim_value)} \cup {b + 39 : b \in BitsOf(base_row)}

EncConfigure(lv, lh, lmcf, lucf, d, lmt) ==
    {5, 6} \cup {b + 7 : b \in BitsOf(lv)} \cup {b + 10 : b \in BitsOf(lh)}
    \cup {b + 11 : b \in BitsOf(lmcf)} \cup {b + 14 : b \in BitsOf(lucf)}
    \cup {b + 17 : b \in BitsOf(d)} \cup {b + 18 : b \in BitsOf(lmt)}

VARIABLES
    config_,            \* Config &: the organisation and timing the system is built with
    pim_trans_queue_,   \* std::vector<Transaction>, the addr of each
    vcuts, hcuts, mcf, ucf, mc, df, M_tile_size,
    vcuts_next, hcuts_next, kernel_size, stride,
    wr_multitenant,     \* ctrls_[c]->wr_multitenant, c in 0..channels-1
    cs,                 \* the per-cut vectors, turn_off and the lanes of the last tick
    aborted,            \* "none", or the assertion / exit that ended the process
    dec,                \* the last tick: the head word, what the decoder did with it, whether a
                        \* cut was in PIM mode before, and the cut state right after the decoder
    host                \* the host: its script, its submissions, its last will_accept answer

vars == <<config_, pim_trans_queue_, vcuts, hcuts, mcf, ucf, mc, df, M_tile_size,
          vcuts_next, hcuts_next, kernel_size, stride, wr_multitenant,
          cs, aborted, dec, host>>

cfgvars == <<vcuts, hcuts, mcf, ucf, mc, df, M_tile_size,
             vcuts_next, hcuts_next, kernel_size, stride, wr_multitenant>>

\* The fields of config_ the tick reads.
channels == config_.channels
banks == config_.banks
banks_per_group == config_.banks_per_group
columns == config_.columns
BL == config_.BL
tCCD_L == config_.tCCD_L
tRCDRD == config_.tRCDRD
tRCDWR == config_.tRCDWR

\* ------------------------------------------------------------- vector helpers
At(v, i) == v[i + 1]
Upd(v, i, x) == [v EXCEPT ![i + 1] = x]
\* std::vector::assign(n, x)
Assign(n, x) == [k \in 1..n |-> x]

\* The per-cut vectors after clear(): all empty. turn_off keeps its value.
Cleared(c) ==
    [c EXCEPT !.base_rows_w = <<>>, !.base_rows_in = <<>>, !.base_rows_out = <<>>,
              !.M = <<>>, !.N = <<>>, !.K = <<>>,
              !.M_it = <<>>, !.K_tile_it = <<>>, !.N_it = <<>>,
              !.M_out_it = <<>>, !.N_out_tile_it = <<>>,
              !.in_pim = <<>>, !.iw_status = <<>>, !.in_cnt = <<>>, !.out_cnt = <<>>,
              !.vpu_cnt = <<>>, !.in_act_placed = <<>>, !.w_act_placed = <<>>,
              !.out_act_placed = <<>>, !.output_valid = <<>>]

\* The per-cut vectors after assign(cuts, ...), lines 310-330.
Assigned(c, cuts) ==
    [c EXCEPT !.base_rows_w = Assign(cuts, 0), !.base_rows_in = Assign(cuts, 0),
              !.base_rows_out = Assign(cuts, 0),
              !.M = Assign(cuts, 0), !.N = Assign(cuts, 0), !.K = Assign(cuts, 0),
              !.M_it = Assign(cuts, 0), !.K_tile_it = Assign(cuts, 0),
              !.N_it = Assign(cuts, 0), !.M_out_it = Assign(cuts, 0),
              !.N_out_tile_it = Assign(cuts, 0),
              !.in_pim = Assign(cuts, FALSE), !.iw_status = Assign(cuts, 0),
              !.in_cnt = Assign(cuts, 0), !.out_cnt = Assign(cuts, -1),
              !.vpu_cnt = Assign(cuts, 0), !.in_act_placed = Assign(cuts, FALSE),
              !.w_act_placed = Assign(cuts, FALSE), !.out_act_placed = Assign(cuts, FALSE),
              !.output_valid = Assign(cuts, 0)]

\* The state of a freshly constructed system: no cut, vcuts = hcuts = -1.
InitCS ==
    [base_rows_w |-> <<>>, base_rows_in |-> <<>>, base_rows_out |-> <<>>,
     M |-> <<>>, N |-> <<>>, K |-> <<>>,
     M_it |-> <<>>, K_tile_it |-> <<>>, N_it |-> <<>>,
     M_out_it |-> <<>>, N_out_tile_it |-> <<>>,
     in_pim |-> <<>>, iw_status |-> <<>>, in_cnt |-> <<>>, out_cnt |-> <<>>,
     vpu_cnt |-> <<>>, in_act_placed |-> <<>>, w_act_placed |-> <<>>,
     out_act_placed |-> <<>>, output_valid |-> <<>>,
     turn_off |-> FALSE,
     rd_w_cmds_ |-> <<>>, rd_in_cmds_ |-> <<>>, wr_cmds_ |-> <<>>]

\* The configuration as one record (the values of the configuration variables).
Cfg == [vcuts |-> vcuts, hcuts |-> hcuts, mcf |-> mcf, ucf |-> ucf, mc |-> mc,
        df |-> df, M_tile_size |-> M_tile_size, vcuts_next |-> vcuts_next,
        hcuts_next |-> hcuts_next, kernel_size |-> kernel_size, stride |-> stride,
        wr_multitenant |-> wr_multitenant]

\* ------------------------------------------------------------ host interface
\* Faulty variant of WillAcceptTransaction: the comparison is off by one.
WillAcceptLoose == Len(pim_trans_queue_) <= pim_trans_queue_depth_

\* bool JedecDRAMSystem::WillAcceptTransaction() const
WillAcceptTransaction == Len(pim_trans_queue_) < pim_trans_queue_depth_

\* ---------------------------------------------------------------- the decoder
\* Faulty variant of Configured: only the cuts the mask selects are looked at.
SelectedConfigured(address, cuts, c) ==
    \A i \in 0..(cuts - 1) :
        Bit(address, i) => (At(c.M, i) # 0 /\ At(c.N, i) # 0 /\ At(c.K, i) # 0)

\* Lines 243-247: configured stays true only if, for every i < cuts, the mask bit
\* of i is set and M[i], N[i], K[i] are all non-zero.
Configured(address, cuts, c) ==
    \A i \in 0..(cuts - 1) :
        Bit(address, i) /\ At(c.M, i) # 0 /\ At(c.N, i) # 0 /\ At(c.K, i) # 0

\* Lines 249-251.
EnablePim(address, cuts, c) ==
    [c EXCEPT !.in_pim = [k \in 1..Len(c.in_pim) |->
                            IF k <= cuts /\ Bit(address, k - 1) THEN TRUE ELSE c.in_pim[k]]]

\* Lines 239-254. Before any Configure vcuts = hcuts = -1, so cuts = 1 and M[0] is
\* read from an empty vector: undefined behaviour, whose outcomes are a crash, the
\* word left at the head, or the word removed.
DecodeCompute(q, g, c) ==
    LET address == Shr(Head(q), 1)
        cuts == g.vcuts * g.hcuts
    IN  IF cuts > Len(c.M)
        THEN {[q |-> q, g |-> g, c |-> c, ab |-> "UB:244", kind |-> "abort"],
              [q |-> q, g |-> g, c |-> c, ab |-> "none", kind |-> "compute_wait"],
              [q |-> Tail(q), g |-> g, c |-> c, ab |-> "none", kind |-> "compute"]}
        ELSE IF Configured(address, cuts, c)
        THEN {[q |-> Tail(q), g |-> g, c |-> EnablePim(address, cuts, c),
               ab |-> "none", kind |-> "compute"]}
        ELSE {[q |-> q, g |-> g, c |-> c, ab |-> "none", kind |-> "compute_wait"]}

\* Lines 293-296: the flag is only ever set.
Multitenant(wr, v, h) ==
    IF v * h > 1 THEN [ch \in DOMAIN wr |-> TRUE] ELSE wr

\* Lines 279-306: the fields of a Configure word.
ConfigFields(word, wr) ==
    LET a0 == Shr(Shr(Shr(word, 1), 4), 2)
        v  == Pow2(Low(a0, 3))
        a1 == Shr(a0, 3)
        h  == Pow2(Low(a1, 1))
        a2 == Shr(a1, 1)
        m  == Pow2(Low(a2, 3))
        a3 == Shr(a2, 3)
        u  == Pow2(Low(a3, 3))
        a4 == Shr(a3, 3)
        d  == Low(a4, 1)
        a5 == Shr(a4, 1)
        mt == Pow2(Low(a5, 4))
        a6 == Shr(a5, 4)
        vn == Pow2(Low(a6, 3))
        a7 == Shr(a6, 3)
        hn == Pow2(Low(a7, 1))
        a8 == Shr(a7, 1)
        ks == Low(a8, 5)
        a9 == Shr(a8, 5)
        st == Low(a9, 5)
    IN  [vcuts |-> v, hcuts |-> h, mcf |-> m, ucf |-> u, mc |-> m * u, df |-> d,
         M_tile_size |-> mt, vcuts_next |-> vn, hcuts_next |-> hn,
         kernel_size |-> ks, stride |-> st,
         wr_multitenant |-> Multitenant(wr, v, h)]

\* Faulty variant of MtileAssert: the bound is one power of two too high.
MtileAssertLoose(mt) == mt <= 4096

\* Line 308: assert(M_tile_size <= 2048)
MtileAssert(mt) == mt <= 2048

\* Faulty variant of ApplyConfigure: out_cnt is assigned 0 like the other counters.
ApplyConfigureZero(q, ng, c) ==
    IF ~MtileAssert(ng.M_tile_size)
    THEN {[q |-> q, g |-> ng, c |-> Cleared(c), ab |-> "assert:308", kind |-> "abort"]}
    ELSE {[q |-> Tail(q), g |-> ng,
           c |-> [Assigned(Cleared(c), ng.vcuts * ng.hcuts)
                    EXCEPT !.out_cnt = Assign(ng.vcuts * ng.hcuts, 0)],
           ab |-> "none", kind |-> "configure"]}

\* Lines 258-333, with the fields ng decoded.
ApplyConfigure(q, ng, c) ==
    IF ~MtileAssert(ng.M_tile_size)
    THEN {[q |-> q, g |-> ng, c |-> Cleared(c), ab |-> "assert:308", kind |-> "abort"]}
    ELSE {[q |-> Tail(q), g |-> ng, c |-> Assigned(Cleared(c), ng.vcuts * ng.hcuts),
           ab |-> "none", kind |-> "configure"]}

\* Lines 255-333.
DecodeConfigure(q, g, c) == ApplyConfigure(q, ConfigFields(Head(q), g.wr_multitenant), c)

\* Lines 335-343: the fields of a Load word.
LoadFields(word) ==
    LET a0 == Shr(word, 1)
        a1 == Shr(a0, 4)
        a2 == Shr(a1, 2)
        a3 == Shr(a2, 32)
    IN  [cut_no |-> Low(a0, 4), loadType |-> Low(a1, 2),
         dim_value |-> LowInt32(a2), base_row |-> Low(a3, 22)]

\* Faulty variant of ApplyLoad: the cases of loadType 1 and 2 are swapped.
ApplyLoadSwapped(c, f) ==
    CASE f.loadType = 0 ->
           [c EXCEPT !.base_rows_w = Upd(@, f.cut_no, f.base_row),
                     !.M = Upd(@, f.cut_no, f.dim_value)]
      [] f.loadType = 2 ->
           [c EXCEPT !.base_rows_out = Upd(@, f.cut_no, f.base_row),
                     !.K = Upd(@, f.cut_no, f.dim_value)]
      [] f.loadType = 1 ->
           [c EXCEPT !.base_rows_in = Upd(@, f.cut_no, f.base_row),
                     !.N = Upd(@, f.cut_no, f.dim_value)]
      [] OTHER -> c

\* Lines 344-363: the switch on loadType, for an index inside the vectors.
ApplyLoad(c, f) ==
    CASE f.loadType = 0 ->
           [c EXCEPT !.base_rows_w = Upd(@, f.cut_no, f.base_row),
                     !.M = Upd(@, f.cut_no, f.dim_value)]
      [] f.loadType = 1 ->
           [c EXCEPT !.base_rows_out = Upd(@, f.cut_no, f.base_row),
                     !.K = Upd(@, f.cut_no, f.dim_value)]
      [] f.loadType = 2 ->
           [c EXCEPT !.base_rows_in = Upd(@, f.cut_no, f.base_row),
                     !.N = Upd(@, f.cut_no, f.dim_value)]
      [] OTHER -> c

\* Lines 344-366, with the fields f decoded. A cut_no that is not an index of the
\* vectors is written out of bounds: undefined behaviour, whose outcomes are a crash
\* or a write that lands outside the per-cut vectors.
LoadOutcomes(q, g, c, f) ==
    IF f.loadType \notin {0, 1, 2}
    THEN {[q |-> q, g |-> g, c |-> c, ab |-> "AbruptExit:361", kind |-> "abort"]}
    ELSE IF f.cut_no >= Len(c.M)
    THEN {[q |-> q, g |-> g, c |-> c, ab |-> "UB:346", kind |-> "abort"],
          [q |-> Tail(q), g |-> g, c |-> c, ab |-> "none", kind |-> "load_oob"]}
    ELSE {[q |-> Tail(q), g |-> g, c |-> ApplyLoad(c, f), ab |-> "none", kind |-> "load"]}

\* Lines 334-366.
DecodeLoad(q, g, c) == LoadOutcomes(q, g, c, LoadFields(Head(q)))

\* Lines 221-367: the outcomes of the decoder on queue q.
Decode(q, g, c) ==
    IF q = <<>>
    THEN {[q |-> q, g |-> g, c |-> c, ab |-> "none", kind |-> "idle"]}
    ELSE IF Bit(Head(q), 0) THEN DecodeCompute(q, g, c)
    ELSE IF Bit(Head(q), 6) /\ Bit(Head(q), 5) THEN DecodeConfigure(q, g, c)
    ELSE DecodeLoad(q, g, c)

\* ------------------------------------------------------------ the controllers
\* Controller::GetReadyCommand(cmd, clk_) is outside this file. Its answer to the
\* command asked for position p of a batch is the command itself ("SAME"), a
\* PIM_ACTIVATE or PRECHARGE that has to come first, or an invalid command.
RespKinds == {"INVALID", "PIM_ACTIVATE", "PRECHARGE", "SAME"}

RespAt(r, p) == IF p = r.at THEN r.alt ELSE r.base

Resolve(kind, asked) == IF kind = "SAME" THEN asked ELSE kind

\* Command::IsValid()
IsValid(kind) == kind # "INVALID"

\* C++ integer division (towards zero) and remainder, for b # 0.
Abs(a) == IF a < 0 THEN -a ELSE a
CDiv(a, b) == IF (a >= 0) = (b > 0) THEN Abs(a) \div Abs(b) ELSE -(Abs(a) \div Abs(b))
CMod(a, b) == a - b * CDiv(a, b)

\* ------------------------------------------------------- geometry of cut i
\* Lines 380-393.
Geo(g, c, i) ==
    LET cut_height == CDiv(channels, g.hcuts)
        N_tile_size == CDiv(128, g.vcuts)
        M_tile_it == CDiv(At(c.M_it, i), g.M_tile_size)
    IN  [vcut_no |-> CMod(i, g.vcuts),
         cut_height |-> cut_height,
         hcut_no |-> CDiv(i, g.vcuts),
         cut_width |-> CDiv(banks, g.vcuts),
         N_tile_size |-> N_tile_size,
         N_tile_it |-> CDiv(At(c.N_it, i), N_tile_size),
         M_tile_it |-> M_tile_it,
         M_current_tile_size |->
             IF At(c.M, i) < g.M_tile_size * (M_tile_it + 1)
             THEN CMod(At(c.M, i), g.M_tile_size) ELSE g.M_tile_size,
         K_tile_size |-> Min(cut_height * 16, At(c.K, i)),
         weight_banks_reduce |-> IF g.df = 1 THEN 16 ELSE 1]

\* Address(ch, 0, bg, bk, row, col) with the command type asked for.
MkCmd(type, ch, bank, row, col) ==
    [cmd_type |-> type, channel |-> ch,
     bankgroup |-> CDiv(bank, banks_per_group), bank |-> CMod(bank, banks_per_group),
     row |-> row, column |-> col]

\* Faulty variant of HomBatch: the answers that are valid are kept, whatever the others
\* are.
HomBatchValid(asked, r) ==
    SelectSeq([p \in 1..Len(asked) |->
                 [asked[p] EXCEPT !.cmd_type = Resolve(RespAt(r, p - 1), @)]],
              LAMBDA x : IsValid(x.cmd_type))

\* ------------------------------------------------------------- batch building
\* Lines 417-448 and 690-720: the loops stop at the first invalid answer and at the
\* first answer whose type differs from the first one, with the batch cleared.
HomBatch(asked, r) ==
    LET got == [p \in 1..Len(asked) |->
                  [asked[p] EXCEPT !.cmd_type = Resolve(RespAt(r, p - 1), @)]]
    IN  IF \A p \in 1..Len(asked) :
              IsValid(got[p].cmd_type) /\ got[p].cmd_type = got[1].cmd_type
        THEN got ELSE <<>>

\* Lines 501-527: an invalid answer clears the batch and leaves the inner loop only;
\* the next j goes on pushing. mixed is raised when an answer differs from the
\* first command of the batch as it is then.
RECURSIVE InBuild(_, _, _, _, _, _)
InBuild(asked, r, mcN, p, batch, mixed) ==
    IF p >= Len(asked) THEN [batch |-> batch, mixed |-> mixed]
    ELSE LET kind == Resolve(RespAt(r, p), asked[p + 1].cmd_type)
         IN  IF ~IsValid(kind)
             THEN InBuild(asked, r, mcN, (CDiv(p, mcN) + 1) * mcN, <<>>, mixed)
             ELSE LET nb == Append(batch, [asked[p + 1] EXCEPT !.cmd_type = kind])
                  IN  InBuild(asked, r, mcN, p + 1, nb,
                              mixed \/ nb[1].cmd_type # kind)

\* Lines 533-539: erase the PIM_READ and PIM_READ_PRECHARGE commands.
RECURSIVE EraseReads(_)
EraseReads(batch) ==
    IF batch = <<>> THEN <<>>
    ELSE IF Head(batch).cmd_type \in {"PIM_READ", "PIM_READ_PRECHARGE"}
         THEN EraseReads(Tail(batch))
         ELSE <<Head(batch)>> \o EraseReads(Tail(batch))

\* What cut i appended to a lane in this tick.
\* Faulty variant of Emit: an input batch is handed over on the weight lane.
EmitOnWeightLane(c, lane, i, batch) ==
    CASE lane = "w"   -> [c EXCEPT !.rd_w_cmds_ = Upd(@, i, batch)]
      [] lane = "in"  -> [c EXCEPT !.rd_w_cmds_ = Upd(@, i, batch)]
      [] lane = "out" -> [c EXCEPT !.wr_cmds_ = Upd(@, i, batch)]

Emit(c, lane, i, batch) ==
    CASE lane = "w"   -> [c EXCEPT !.rd_w_cmds_ = Upd(@, i, batch)]
      [] lane = "in"  -> [c EXCEPT !.rd_in_cmds_ = Upd(@, i, batch)]
      [] lane = "out" -> [c EXCEPT !.wr_cmds_ = Upd(@, i, batch)]

\* Faulty variant of WeightAdvance: N_it is counted up without the snap back to the
\* origin of the N-tile.
WeightAdvanceOn(c, i, geo, Npb) == [c EXCEPT !.N_it = Upd(@, i, At(@, i) + 1)]

\* ------------------------------------------------- case 0: fetching weight
\* Lines 470-475.
WeightAdvance(c, i, geo, Npb) ==
    LET n1 == At(c.N_it, i) + 1
    IN  IF CMod(n1, Npb) = 0 /\ (geo.N_tile_size = Npb \/ CMod(n1, geo.N_tile_size) # 0)
        THEN [c EXCEPT !.N_it = Upd(@, i, geo.N_tile_size * geo.N_tile_it),
                       !.iw_status = Upd(@, i, At(@, i) + 1)]
        ELSE [c EXCEPT !.N_it = Upd(@, i, n1)]

\* Faulty variant of WeightRead: a PRECHARGE batch counts as a read with df = 1 too.
WeightReadCount(g, c, i, geo, Npb, batch) ==
    Emit(WeightAdvance(c, i, geo, Npb), "w", i, batch)

\* Lines 461-476: the first command of the batch is not a PIM_ACTIVATE.
WeightRead(g, c, i, geo, Npb, batch) ==
    IF g.df = 1 /\ batch[1].cmd_type = "PRECHARGE"
    THEN Emit(c, "w", i, batch)
    ELSE Emit(WeightAdvance(c, i, geo, Npb), "w", i, batch)

\* Faulty variant of WeightDispose: a PIM_ACTIVATE batch is appended whatever the flag
\* says.
WeightDisposeAgain(g, c, i, geo, Npb, batch, wait_refresh) ==
    IF batch = <<>> THEN c
    ELSE IF batch[1].cmd_type = "PIM_ACTIVATE"
    THEN IF wait_refresh THEN c
         ELSE Emit([c EXCEPT !.w_act_placed = Upd(@, i, TRUE)], "w", i, batch)
    ELSE WeightRead(g, IF batch[1].cmd_type = "PIM_READ_PRECHARGE"
                       THEN [c EXCEPT !.w_act_placed = Upd(@, i, FALSE)] ELSE c,
                    i, geo, Npb, batch)

\* Lines 451-477.
WeightDispose(g, c, i, geo, Npb, batch, wait_refresh) ==
    IF batch = <<>> THEN c
    ELSE IF batch[1].cmd_type = "PIM_ACTIVATE"
    THEN IF At(c.w_act_placed, i) \/ wait_refresh THEN c
         ELSE Emit([c EXCEPT !.w_act_placed = Upd(@, i, TRUE)], "w", i, batch)
    ELSE WeightRead(g, IF batch[1].cmd_type = "PIM_READ_PRECHARGE"
                       THEN [c EXCEPT !.w_act_placed = Upd(@, i, FALSE)] ELSE c,
                    i, geo, Npb, batch)

\* Lines 404-480.
Weight(g, c, i, geo, r, wait_refresh) ==
    LET kw  == CDiv(geo.cut_width, geo.weight_banks_reduce)
        den == Min(At(c.N, i), CDiv(128, banks) * geo.weight_banks_reduce)
    IN  IF kw = 0 \/ geo.K_tile_size = 0 \/ den = 0
        THEN [c |-> c, ab |-> "UB:415"]
        ELSE
        LET Npb == Min(At(c.N, i), CDiv(geo.N_tile_size - 1, kw) + 1)
            col_offset == geo.N_tile_it * (Npb * (CDiv(At(c.K, i) - 1, geo.K_tile_size) + 1))
                          + At(c.K_tile_it, i) * Npb + CMod(At(c.N_it, i), geo.N_tile_size)
            row == At(c.base_rows_w, i) + CDiv(col_offset, CDiv(columns, BL))
            col == CMod(col_offset, CDiv(columns, BL))
            type == IF CMod(col + 1, den) = 0 \/ CMod(col + 1, CDiv(columns, BL)) = 0
                    THEN "PIM_READ_PRECHARGE" ELSE "PIM_READ"
            asked == [p \in 1..(geo.cut_height * kw) |->
                        MkCmd(type, geo.hcut_no * geo.cut_height + CDiv(p - 1, kw),
                              geo.vcut_no * geo.cut_width
                                + CMod(p - 1, kw) * geo.weight_banks_reduce,
                              row, col)]
        IN  [c |-> WeightDispose(g, c, i, geo, Npb, HomBatch(asked, r), wait_refresh),
             ab |-> "none"]

\* ------------------------------------------------- case 1: finished weight
\* Lines 485-492: with a single cut, step back if a cut is in phase 0 or 3.
StepBack(g, c, i) ==
    IF g.vcuts * g.hcuts = 1 /\ \E j \in 1..Len(c.iw_status) : c.iw_status[j] \in {0, 3}
    THEN [c EXCEPT !.iw_status = Upd(@, i, At(@, i) - 1)]
    ELSE c

\* Faulty variant of WeightFinished: the cut skips State 2.
WeightFinishedSkip(g, c, i) ==
    [c EXCEPT !.iw_status = Upd(@, i, At(@, i) + 2), !.vpu_cnt = Upd(@, i, 1)]

\* Lines 481-494. The loop looks at iw_status after the increment.
WeightFinished(g, c, i) ==
    StepBack(g, [c EXCEPT !.iw_status = Upd(@, i, At(@, i) + 1), !.vpu_cnt = Upd(@, i, 1)], i)

\* --------------------------------------------------- case 2: feeding input
\* Faulty variant of TileAssert: the assertion is compiled out.
TileAssertOff(g) == TRUE

\* Line 563: assert(M_tile_size > 128/vcuts)
TileAssert(g) == g.M_tile_size > CDiv(128, g.vcuts)

\* Lines 565-567: the output wave is scheduled.
OutCntArm == Max(1, tCCD_L * (3 + 16) - tRCDWR)

\* Line 572
InCntArm(g) == Max(1, tCCD_L * Max(CDiv(128, g.vcuts * g.mc), 16) - tRCDRD)

\* Lines 584-587
InputMEnd(c, i) ==
    IF At(c.M_it, i) >= At(c.M, i) THEN [c EXCEPT !.in_cnt = Upd(@, i, -1)] ELSE c

\* Lines 581-588
InputNEnd(g, c, i, geo) ==
    IF At(c.N_it, i) >= At(c.N, i)
    THEN InputMEnd([c EXCEPT !.N_it = Upd(@, i, 0),
                             !.M_it = Upd(@, i, g.M_tile_size * (geo.M_tile_it + 1))], i)
    ELSE c

\* Lines 577-589
InputKEnd(g, c, i, geo) ==
    IF At(c.K_tile_it, i) * geo.K_tile_size >= At(c.K, i)
    THEN InputNEnd(g, [c EXCEPT !.K_tile_it = Upd(@, i, 0),
                                !.N_it = Upd(@, i, geo.N_tile_size * (geo.N_tile_it + 1))],
                   i, geo)
    ELSE c

\* Faulty variant of InputTileEnd: the end of a tile is not noticed.
InputTileEndNever(g, c, i, geo) == c

\* Lines 571-590
InputTileEnd(g, c, i, geo) ==
    IF CMod(At(c.M_it, i), g.M_tile_size) = 0 \/ At(c.M_it, i) = At(c.M, i)
    THEN InputKEnd(g, [c EXCEPT !.in_cnt = Upd(@, i, InCntArm(g)),
                                !.iw_status = Upd(@, i, At(@, i) + 1),
                                !.M_it = Upd(@, i, g.M_tile_size * geo.M_tile_it),
                                !.K_tile_it = Upd(@, i, At(@, i) + 1)],
                   i, geo)
    ELSE c

\* Lines 565-567
ArmOutput(g, c, i, geo) ==
    IF (At(c.K_tile_it, i) + 1) * geo.K_tile_size >= At(c.K, i)
       /\ CMod(At(c.M_it, i), g.M_tile_size) = 0
    THEN [c EXCEPT !.out_cnt = Upd(@, i, OutCntArm)] ELSE c

\* Lines 565-590: a batch of reads was accepted.
InputAdvance(g, c, i, geo) ==
    InputTileEnd(g, [ArmOutput(g, c, i, geo) EXCEPT !.M_it = Upd(@, i, At(@, i) + 1)], i, geo)

\* Faulty variant of InputRead: a batch of reads that is not emitted is counted.
InputReadCounted(g, c, i, geo, batch) ==
    IF At(c.vpu_cnt, i) # 0 THEN [c |-> c, ab |-> "none"]
    ELSE IF ~TileAssert(g) THEN [c |-> c, ab |-> "assert:563"]
    ELSE [c |-> IF batch[1].cmd_type = "PRECHARGE" THEN InputAdvance(g, c, i, geo)
                ELSE Emit(InputAdvance(g, c, i, geo), "in", i, batch),
          ab |-> "none"]

\* Lines 552-591: the first command of the batch is not a PIM_ACTIVATE.
InputRead(g, c, i, geo, batch) ==
    IF At(c.vpu_cnt, i) # 0 THEN [c |-> c, ab |-> "none"]
    ELSE IF ~TileAssert(g) THEN [c |-> c, ab |-> "assert:563"]
    ELSE [c |-> Emit(InputAdvance(g, c, i, geo), "in", i, batch), ab |-> "none"]

\* Lines 542-592, on the batch left by the size check and the purge.
InputPlace(g, c, i, geo, batch, mixed, wait_refresh) ==
    IF batch = <<>> THEN [c |-> c, ab |-> "none"]
    ELSE IF batch[1].cmd_type = "PIM_ACTIVATE"
    THEN IF (~mixed /\ At(c.in_act_placed, i)) \/ wait_refresh
         THEN [c |-> c, ab |-> "none"]
         ELSE [c |-> Emit([c EXCEPT !.in_act_placed = Upd(@, i, TRUE)], "in", i, batch),
               ab |-> "none"]
    ELSE InputRead(g, IF batch[1].cmd_type = "PIM_READ_PRECHARGE"
                      THEN [c EXCEPT !.in_act_placed = Upd(@, i, FALSE)] ELSE c,
                   i, geo, batch)

\* Lines 528-531: with several cuts a batch must hold cut_height commands.
SizeCheck(g, geo, batch) ==
    IF g.vcuts * g.hcuts > 1 /\ Len(batch) # geo.cut_height THEN <<>> ELSE batch

\* Lines 532-540
Purge(batch, mixed) == IF batch # <<>> /\ mixed THEN EraseReads(batch) ELSE batch

\* Lines 528-592, on the batch b = [batch, mixed] built by the loops.
InputDispose(g, c, i, geo, b, wait_refresh) ==
    InputPlace(g, c, i, geo, Purge(SizeCheck(g, geo, b.batch), b.mixed), b.mixed, wait_refresh)

\* Lines 495-593.
Input(g, c, i, geo, r, wait_refresh) ==
    IF geo.K_tile_size = 0 THEN [c |-> c, ab |-> "UB:499"]
    ELSE
    LET col_offset == geo.M_tile_it
                        * (g.M_tile_size * (CDiv(At(c.K, i) - 1, geo.K_tile_size) + 1))
                      + At(c.K_tile_it, i) * geo.M_current_tile_size
                      + CMod(At(c.M_it, i), g.M_tile_size)
        row == At(c.base_rows_in, i) + CDiv(col_offset, CDiv(columns, BL))
        col == CMod(col_offset, CDiv(columns, BL))
        close0 == At(c.M_it, i) + 1 = At(c.M, i)
        close == IF g.df = 1
                 THEN close0 /\ (At(c.K_tile_it, i) + 1) * geo.K_tile_size >= At(c.K, i)
                 ELSE close0
        type == IF col = CDiv(columns, BL) - 1 \/ close
                THEN "PIM_READ_PRECHARGE" ELSE "PIM_READ"
        asked == [p \in 1..(geo.cut_height * g.mc) |->
                    MkCmd(type, geo.hcut_no * geo.cut_height + CDiv(p - 1, g.mc),
                          geo.vcut_no * geo.cut_width
                            + CMod(p - 1, g.mc) * CDiv(geo.cut_width, g.mc),
                          row, col)]
    IN  InputDispose(g, c, i, geo, InBuild(asked, r, g.mc, 0, <<>>, FALSE), wait_refresh)

\* Lines 496-497
VpuCount(c, i) == [c EXCEPT !.vpu_cnt = Upd(@, i, Max(0, At(@, i) - 1))]

\* -------------------------------------------------- case 3: finished input
\* Lines 594-602.
InputFinished(c, i) ==
    IF At(c.in_cnt, i) = -1 THEN c
    ELSE LET n == Max(0, At(c.in_cnt, i) - 1)
         IN  IF n = 0 /\ At(c.output_valid, i) = 0
             THEN [c EXCEPT !.in_cnt = Upd(@, i, n), !.iw_status = Upd(@, i, 0)]
             ELSE [c EXCEPT !.in_cnt = Upd(@, i, n)]

\* Lines 403-662: the switch on iw_status[i].
Phase(g, c, i, geo, r, wait_refresh) ==
    CASE At(c.iw_status, i) = 0 -> Weight(g, c, i, geo, r, wait_refresh)
      [] At(c.iw_status, i) = 1 -> [c |-> WeightFinished(g, c, i), ab |-> "none"]
      [] At(c.iw_status, i) = 2 -> Input(g, VpuCount(c, i), i, geo, r, wait_refresh)
      [] At(c.iw_status, i) = 3 -> [c |-> InputFinished(c, i), ab |-> "none"]
      [] OTHER -> [c |-> c, ab |-> "none"]

\* --------------------------------------------------------- output write-back
\* Faulty variant of OutCountDown: out_cnt is counted down below -1.
OutCountDownAlways(c, i) == [c EXCEPT !.out_cnt = Upd(@, i, At(@, i) - 1)]

\* Line 668
OutCountDown(c, i) ==
    IF At(c.out_cnt, i) # -1 THEN [c EXCEPT !.out_cnt = Upd(@, i, At(@, i) - 1)] ELSE c

\* Lines 667-668.
OutCount(c, i) ==
    OutCountDown(IF At(c.out_cnt, i) = 0
                 THEN [c EXCEPT !.output_valid = Upd(@, i, At(@, i) + 1)] ELSE c, i)

\* Faulty variant of TurnOff: the loop over in_pim is forgotten.
TurnOffAlways(in_pim) == TRUE

\* Lines 750-757: turn_off after the loop over in_pim.
TurnOff(in_pim) == \A j \in 1..Len(in_pim) : ~in_pim[j]

\* Lines 751-757
SetTurnOff(c) == [c EXCEPT !.turn_off = TurnOff(c.in_pim)]

\* Lines 748-757: the output of cut i is exhausted.
Exhaust(g, c, i, geo) ==
    SetTurnOff([c EXCEPT !.in_pim = IF geo.cut_height < g.vcuts
                                    THEN Upd(Upd(@, i, FALSE), i + 1, FALSE)
                                    ELSE Upd(@, i, FALSE)])

\* Lines 762-763
OutputTileDone(g, c, i, geo) ==
    [c EXCEPT !.output_valid = IF geo.cut_height < g.vcuts
                               THEN [Upd(@, i, At(@, i) - 1) EXCEPT ![i + 2] = @ - 1]
                               ELSE Upd(@, i, At(@, i) - 1)]

\* Lines 745-758
OutputMEnd(g, c, i, geo, o) ==
    IF At(c.M_out_it, i) >= o.M_out
    THEN IF At(c.in_cnt, i) # -1 THEN [c |-> c, ab |-> "assert:746"]
         ELSE [c |-> OutputTileDone(g, Exhaust(g, c, i, geo), i, geo), ab |-> "none"]
    ELSE [c |-> OutputTileDone(g, c, i, geo), ab |-> "none"]

\* Lines 742-763
OutputNEnd(g, c, i, geo, o) ==
    IF At(c.N_out_tile_it, i) * o.N_tile_size_out >= o.N_out
    THEN OutputMEnd(g, [c EXCEPT !.N_out_tile_it = Upd(@, i, 0),
                                 !.M_out_it = Upd(@, i, o.M_tile_size_out * (o.M_out_tile_it + 1))],
                    i, geo, o)
    ELSE [c |-> OutputTileDone(g, c, i, geo), ab |-> "none"]

\* Lines 739-765
OutputTileEnd(g, c, i, geo, o) ==
    IF CMod(At(c.M_out_it, i), o.M_tile_size_out) = 0 \/ At(c.M_out_it, i) = o.M_out
    THEN OutputNEnd(g, [c EXCEPT !.M_out_it = Upd(@, i, o.M_tile_size_out * o.M_out_tile_it),
                                 !.N_out_tile_it = Upd(@, i, At(@, i) + 1)],
                    i, geo, o)
    ELSE [c |-> c, ab |-> "none"]

\* Lines 737-765: a batch of writes was accepted.
OutputAdvance(g, c, i, geo, o) ==
    OutputTileEnd(g, [c EXCEPT !.M_out_it = Upd(@, i, At(@, i) + 1)], i, geo, o)

\* The state with the batch on the lane, or the failure.
EmitOut(a, i, batch) == [c |-> Emit(a.c, "out", i, batch), ab |-> a.ab]

\* Lines 722-767.
OutputDispose(g, c, i, geo, o, batch, wait_refresh) ==
    IF batch = <<>> THEN [c |-> c, ab |-> "none"]
    ELSE IF batch[1].cmd_type = "PIM_ACTIVATE"
    THEN IF At(c.out_act_placed, i) \/ wait_refresh
         THEN [c |-> c, ab |-> "none"]
         ELSE [c |-> Emit([c EXCEPT !.out_act_placed = Upd(@, i, TRUE)], "out", i, batch),
               ab |-> "none"]
    ELSE EmitOut(OutputAdvance(g, IF batch[1].cmd_type = "PIM_WRITE_PRECHARGE"
                                  THEN [c EXCEPT !.out_act_placed = Upd(@, i, FALSE)] ELSE c,
                               i, geo, o),
                 i, batch)

\* Line 674
OutEnable(g, geo) == CDiv(geo.cut_height, g.vcuts) > 0 \/ CMod(geo.vcut_no, 2) = 0

\* Lines 676-721. geo is the geometry computed before the switch.
Output(g, c, i, geo, r, wait_refresh) ==
    LET Mtso == IF g.df = 1 THEN CDiv(g.M_tile_size, 128) * g.mcf ELSE g.M_tile_size
    IN  IF Mtso = 0 THEN [c |-> c, ab |-> "UB:678"]
        ELSE
        LET vcut_out_no == IF At(c.M, i) = 1 THEN geo.vcut_no
                           ELSE IF g.vcuts = 16 THEN CDiv(geo.vcut_no, 2)
                           ELSE CMod(geo.vcut_no + At(c.N_out_tile_it, i), g.vcuts)
            M_out_tile_it == CDiv(At(c.M_out_it, i), Mtso)
            M_out == IF g.df = 1 THEN Max(1, CDiv(At(c.M, i) * g.mcf, 128)) ELSE At(c.M, i)
            M_out_cur == IF M_out < Mtso * (M_out_tile_it + 1)
                         THEN CMod(M_out, Mtso) ELSE Mtso
            N_out == IF g.df = 1 THEN 128 ELSE At(c.N, i)
            Ntso == IF g.df = 1 THEN 128 ELSE geo.N_tile_size
            N_tile_num == CDiv(At(c.N, i) - 1, Ntso) + 1
            N_tile_num_ch == CDiv(N_tile_num, g.vcuts)
                             + (IF CMod(N_tile_num, g.vcuts)
                                     > CMod(At(c.N_out_tile_it, i), g.vcuts)
                                THEN 1 ELSE 0)
            N_tile_it_ch == CDiv(At(c.N_out_tile_it, i), g.vcuts)
            col_offset == M_out_tile_it * (Mtso * N_tile_num_ch)
                          + N_tile_it_ch * M_out_cur + CMod(At(c.M_out_it, i), Mtso)
            row == At(c.base_rows_out, i) + CDiv(col_offset, CDiv(columns, BL))
            col == CMod(col_offset, CDiv(columns, BL))
            cut_height_out == IF geo.cut_height < g.vcuts THEN 1
                              ELSE CDiv(geo.cut_height, g.vcuts)
            k_bound == IF g.df = 1 THEN 1 ELSE g.mc
            type == IF col = CDiv(columns, BL) - 1 \/ At(c.M_out_it, i) + 1 = M_out
                    THEN "PIM_WRITE_PRECHARGE" ELSE "PIM_WRITE"
            asked == [p \in 1..(cut_height_out * k_bound) |->
                        MkCmd(type,
                              geo.hcut_no * geo.cut_height + vcut_out_no * cut_height_out
                                + CDiv(p - 1, k_bound),
                              geo.vcut_no * geo.cut_width
                                + CMod(p - 1, k_bound) * CDiv(geo.cut_width, g.mc)
                                + (IF g.df # 1 THEN 1 ELSE 0),
                              row, col)]
            o == [M_tile_size_out |-> Mtso, M_out_tile_it |-> M_out_tile_it,
                  M_out |-> M_out, N_out |-> N_out, N_tile_size_out |-> Ntso]
        IN  IF \E p \in 1..Len(asked) : asked[p].channel \notin 0..(channels - 1)
            THEN [c |-> c, ab |-> "UB:704"]
            ELSE OutputDispose(g, c, i, geo, o, HomBatch(asked, r), wait_refresh)

\* ------------------------------------------------------------ one cut, one tick
\* Faulty variant of WriteBack: the write-back does not wait for output_ready.
WriteBackAnyPhase(g, c, i, geo, output_ready, r, wait_refresh) ==
    IF At(c.output_valid, i) > 0 /\ OutEnable(g, geo)
    THEN Output(g, c, i, geo, r, wait_refresh)
    ELSE [c |-> c, ab |-> "none"]

\* Lines 667-769, on the state ph the switch left.
WriteBack(g, c, i, geo, output_ready, r, wait_refresh) ==
    IF At(c.output_valid, i) > 0 /\ output_ready /\ OutEnable(g, geo)
    THEN Output(g, c, i, geo, r, wait_refresh)
    ELSE [c |-> c, ab |-> "none"]

AfterPhase(g, ph, i, geo, output_ready, r, wait_refresh) ==
    IF ph.ab # "none" THEN ph
    ELSE WriteBack(g, OutCount(ph.c, i), i, geo, output_ready, r, wait_refresh)

\* Lines 380-769 for a cut that is in PIM mode.
RunCut(g, c, i, geo, r, wait_refresh) ==
    AfterPhase(g, Phase(g, c, i, geo, r, wait_refresh), i, geo,
               At(c.iw_status, i) = 3, r, wait_refresh)

\* Faulty variant of ProcessCut: a controller in refresh does not stop the cut.
ProcessCutInRefresh(g, c, i, r, wait_refresh, is_in_ref) ==
    IF ~At(c.in_pim, i) THEN [c |-> c, ab |-> "none"]
    ELSE RunCut(g, c, i, Geo(g, c, i), r, wait_refresh)

\* Lines 377-791 for cut i: the switch, the counters, the write-back, the lanes.
\* r is what the controllers answer to the one batch the cut builds in this tick
\* (a cut that builds an output batch was in phase 3 and built no other).
ProcessCut(g, c, i, r, wait_refresh, is_in_ref) ==
    IF ~At(c.in_pim, i) \/ is_in_ref THEN [c |-> c, ab |-> "none"]
    ELSE RunCut(g, c, i, Geo(g, c, i), r, wait_refresh)

\* Lines 375-376
Cuts(g) == IF g.vcuts # -1 /\ g.hcuts # -1 THEN g.vcuts * g.hcuts ELSE 0

\* Lines 377-791: the loop over the cuts, in ascending order, from cut i on.
RECURSIVE Engine(_, _, _, _, _, _)
EngineNext(g, s, i, rs, wait_refresh, is_in_ref) ==
    IF s.ab # "none" THEN s ELSE Engine(g, s.c, i + 1, rs, wait_refresh, is_in_ref)

Engine(g, c, i, rs, wait_refresh, is_in_ref) ==
    IF i >= Cuts(g) THEN [c |-> c, ab |-> "none"]
    ELSE EngineNext(g, ProcessCut(g, c, i, rs[i + 1], wait_refresh, is_in_ref),
                    i, rs, wait_refresh, is_in_ref)

\* -------------------------------------------------------------- the clock tick
\* Lines 198-209: a coming refresh clears the placement flags of every cut.
WaitRefresh(g, refresh_coming) == refresh_coming /\ g.vcuts # -1 /\ g.hcuts # -1

\* Faulty variant of ClearPlaced: a coming refresh leaves the placement flags.
ClearPlacedNever(g, c, wait_refresh) == c

ClearPlaced(g, c, wait_refresh) ==
    IF wait_refresh
    THEN [c EXCEPT !.in_act_placed = [k \in 1..Len(@) |-> IF k <= g.vcuts * g.hcuts THEN FALSE ELSE @[k]],
                   !.w_act_placed = [k \in 1..Len(@) |-> IF k <= g.vcuts * g.hcuts THEN FALSE ELSE @[k]],
                   !.out_act_placed = [k \in 1..Len(@) |-> IF k <= g.vcuts * g.hcuts THEN FALSE ELSE @[k]]]
    ELSE c

\* Nothing has been appended to a lane yet in this tick.
FreshLanes(c, cuts) ==
    [c EXCEPT !.rd_w_cmds_ = Assign(cuts, <<>>), !.rd_in_cmds_ = Assign(cuts, <<>>),
              !.wr_cmds_ = Assign(cuts, <<>>)]

\* The per-cut vectors, as the decoder left them (without the lanes).
Snapshot(c) == [c EXCEPT !.rd_w_cmds_ = <<>>, !.rd_in_cmds_ = <<>>, !.wr_cmds_ = <<>>]

\* The answers of the controllers in one tick: one pattern per cut that builds a batch.
Uniform(b) == [base |-> b, at |-> -1, alt |-> b]
Patterns ==
    {Uniform(b) : b \in RespKinds}
    \cup {[base |-> "SAME", at |-> 1, alt |-> "INVALID"],
          [base |-> "SAME", at |-> 1, alt |-> "PIM_ACTIVATE"]}

Asks(c, k, is_in_ref) == ~is_in_ref /\ c.in_pim[k] /\ c.iw_status[k] \in {0, 2, 3}

Answers(c, is_in_ref) ==
    {rs \in [1..Len(c.in_pim) -> Patterns] :
        \A k \in 1..Len(c.in_pim) : ~Asks(c, k, is_in_ref) => rs[k] = Uniform("INVALID")}

SetCfg(g) ==
    /\ vcuts' = g.vcuts /\ hcuts' = g.hcuts /\ mcf' = g.mcf /\ ucf' = g.ucf /\ mc' = g.mc
    /\ df' = g.df /\ M_tile_size' = g.M_tile_size /\ vcuts_next' = g.vcuts_next
    /\ hcuts_next' = g.hcuts_next /\ kernel_size' = g.kernel_size /\ stride' = g.stride
    /\ wr_multitenant' = g.wr_multitenant

\* The number of commands cut i asks its controllers for in a tick: the bounds of the
\* loops at lines 417-418 (weight), 501-502 (input) and 689-694 (output).
AskedSize(g, c, i, geo) ==
    CASE At(c.iw_status, i) = 0 ->
           geo.cut_height * CDiv(geo.cut_width, geo.weight_banks_reduce)
      [] At(c.iw_status, i) = 2 -> geo.cut_height * g.mc
      [] OTHER -> (IF geo.cut_height < g.vcuts THEN 1 ELSE CDiv(geo.cut_height, g.vcuts))
                  * (IF g.df = 1 THEN 1 ELSE g.mc)

\* The cuts whose controllers returned, for every command of the batch, the command
\* that was asked for (GetReadyCommand, lines 432, 514 and 704).
AllReady(g, c, rs) ==
    [k \in 1..Len(rs) |->
        /\ rs[k].base = "SAME"
        /\ rs[k].at \in 0..(AskedSize(g, c, k - 1, Geo(g, c, k - 1)) - 1) => rs[k].alt = "SAME"]

\* Lines 369-791 on the decoder's outcome d: the engine, or the decoder's failure.
\* seen records what the tick read; it is kept in dec.
AfterDecode(d, seen, wait_refresh, is_in_ref) ==
    IF d.ab # "none"
    THEN cs' = d.c /\ aborted' = d.ab /\ dec' = seen
    ELSE \E rs \in Answers(d.c, is_in_ref) :
           \E e \in {Engine(d.g, FreshLanes(d.c, Cuts(d.g)), 0, rs, wait_refresh, is_in_ref)} :
              cs' = e.c /\ aborted' = e.ab /\ dec' = [seen EXCEPT !.ready = AllReady(d.g, d.c, rs)]

\* void JedecDRAMSystem::ClockTick(), lines 179-806. refresh_coming: some controller
\* reports pim_refresh_coming(); is_in_ref: some controller reports IsInRef() or
\* pim_refresh_coming2().
ClockTick(refresh_coming, is_in_ref) ==
    /\ aborted = "none"
    /\ \E wait_refresh \in {WaitRefresh(Cfg, refresh_coming)} :
         \E d \in Decode(pim_trans_queue_, Cfg, ClearPlaced(Cfg, cs, wait_refresh)) :
             /\ pim_trans_queue_' = d.q
             /\ SetCfg(d.g)
             /\ AfterDecode(d, [kind |-> d.kind,
                                word |-> IF pim_trans_queue_ = <<>> THEN {}
                                         ELSE Head(pim_trans_queue_),
                                wait_refresh |-> wait_refresh, is_in_ref |-> is_in_ref,
                                busy |-> \E k \in 1..Len(cs.in_pim) : cs.in_pim[k],
                                c |-> Snapshot(d.c), ready |-> <<>>],
                            wait_refresh, is_in_ref)
    /\ host' = [host EXCEPT !.run = 0]
    /\ UNCHANGED config_

\* ------------------------------------------------------------------- the host
\* Faulty variant of AddTransaction: the word is pushed at the front.
AddFront(hex_addr) ==
    IF WillAcceptTransaction
    THEN pim_trans_queue_' = <<hex_addr>> \o pim_trans_queue_ /\ aborted' = "none"
    ELSE pim_trans_queue_' = pim_trans_queue_ /\ aborted' = "assert:144"

\* bool JedecDRAMSystem::AddTransaction(uint64_t hex_addr), lines 135-152.
AddTransaction(hex_addr) ==
    IF WillAcceptTransaction
    THEN pim_trans_queue_' = Append(pim_trans_queue_, hex_addr) /\ aborted' = "none"
    ELSE pim_trans_queue_' = pim_trans_queue_ /\ aborted' = "assert:144"

\* A host that obeys the contract: it submits only after WillAcceptTransaction()
\* returned true.
HostSubmit(a) ==
    /\ aborted = "none"
    /\ host.script = <<>> /\ host.nsub < MaxSubmits
    /\ WillAcceptTransaction
    /\ AddTransaction(a)
    /\ host' = [host EXCEPT !.nsub = @ + 1, !.run = @ + 1, !.last = a]
    /\ UNCHANGED <<config_, cfgvars, cs, dec>>

\* A host that submits without asking.
BlindSubmit(a) ==
    /\ aborted = "none"
    /\ host.script = <<>> /\ host.nsub < MaxSubmits
    /\ AddTransaction(a)
    /\ host' = [host EXCEPT !.nsub = @ + 1, !.run = @ + 1, !.last = a, !.obeyed = FALSE]
    /\ UNCHANGED <<config_, cfgvars, cs, dec>>

\* A host that plays a script of control words, obeying the contract.
ScriptSubmit ==
    /\ aborted = "none"
    /\ host.script # <<>>
    /\ WillAcceptTransaction
    /\ AddTransaction(Head(host.script))
    /\ host' = [host EXCEPT !.script = Tail(@), !.nsub = @ + 1, !.run = @ + 1,
                            !.last = Head(host.script)]
    /\ UNCHANGED <<config_, cfgvars, cs, dec>>

\* ------------------------------------------------------------- specifications
\* HBM-like organisation of the seed scenarios: 4 channels x 16 banks.
Config4x16 == [channels |-> 4, banks |-> 16, banks_per_group |-> 4, columns |-> 64,
               BL |-> 4, tCCD_L |-> 1, tRCDRD |-> 126, tRCDWR |-> 17]

\* A small organisation for runs with two cuts: 2 channels x 4 banks.
Config2x4 == [Config4x16 EXCEPT !.channels = 2, !.banks = 4, !.banks_per_group = 2]

\* One channel: with vcuts = 2 a cut is lower than it is wide (cut_height < vcuts).
Config1x4 == [Config2x4 EXCEPT !.channels = 1]

\* Constructor, lines 19-129, and the host that drives the system.
InitSystem(name, cf, script) ==
    /\ config_ = cf
    /\ pim_trans_queue_ = <<>>
    /\ vcuts = -1 /\ hcuts = -1 /\ mcf = 0 /\ ucf = 0 /\ mc = 0 /\ df = 0
    /\ M_tile_size = 0 /\ vcuts_next = 0 /\ hcuts_next = 0 /\ kernel_size = 0 /\ stride = 0
    /\ wr_multitenant = [ch \in 0..(cf.channels - 1) |-> FALSE]
    /\ cs = InitCS
    /\ aborted = "none"
    /\ dec = [kind |-> "idle", word |-> {}, wait_refresh |-> FALSE, is_in_ref |-> FALSE,
              busy |-> FALSE, c |-> InitCS, ready |-> <<>>]
    /\ host = [name |-> name, script |-> script, nsub |-> 0, run |-> 0, last |-> {},
               obeyed |-> TRUE]

\* The three Loads of a cut: M, K and N with their base rows.
LoadCut(cut_no, m, k, n) ==
    <<EncLoad(cut_no, 0, m, 1), EncLoad(cut_no, 1, k, 2), EncLoad(cut_no, 2, n, 3)>>

\* Seed scenario 1: one cut, M_tile_size = 16, M = N = K = 16, mask 0b1.
Seed1 == <<EncConfigure(0, 0, 0, 0, 0, 4)>> \o LoadCut(0, 16, 16, 16) \o <<EncCompute(1)>>

\* One cut, M_tile_size = 256, M = N = K = 2.
OneCut == <<EncConfigure(0, 0, 0, 0, 0, 8)>> \o LoadCut(0, 2, 2, 2) \o <<EncCompute(1)>>

\* Two cuts (vcuts = 2), only cut 0 loaded and selected.
PartialMask == <<EncConfigure(1, 0, 0, 0, 0, 8)>> \o LoadCut(0, 1, 1, 1) \o <<EncCompute(1)>>

\* Two cuts (vcuts = 2), both loaded and selected.
TwoCuts == <<EncConfigure(1, 0, 0, 0, 0, 8)>> \o LoadCut(0, 1, 1, 1) \o LoadCut(1, 1, 1, 1)
           \o <<EncCompute(3)>>

\* One cut, reconfigured to two cuts while the computation may still be running.
Reconfigure == OneCut \o <<EncConfigure(1, 0, 0, 0, 0, 8)>>

\* The runs of the decoder: a free host, and scripts with one or two cuts.
Scenarios ==
    {[name |-> "free", config |-> Config4x16, script |-> <<>>],
     [name |-> "seed1", config |-> Config4x16, script |-> Seed1],
     [name |-> "onecut", config |-> Config4x16, script |-> OneCut],
     [name |-> "reconfig", config |-> Config4x16, script |-> Reconfigure],
     [name |-> "partial", config |-> Config4x16, script |-> PartialMask]}

\* The runs of the engine, each with one Configure and one Compute-Enable.
RunScenarios ==
    {[name |-> "onecut", config |-> Config4x16, script |-> OneCut],
     [name |-> "twocuts", config |-> Config2x4, script |-> TwoCuts],
     [name |-> "paired", config |-> Config1x4, script |-> TwoCuts]}

\* The control words of a free host.
Words ==
    {EncConfigure(0, 0, 0, 0, 0, 8), EncConfigure(1, 0, 0, 0, 0, 8),
     EncConfigure(0, 0, 0, 0, 0, 12),
     EncLoad(0, 0, 1, 1), EncLoad(0, 1, 2, 3), EncLoad(0, 2, 1, 1), EncLoad(0, 3, 1, 1),
     EncLoad(1, 2, 1, 1), EncCompute(1)}

Init == \E sc \in Scenarios : InitSystem(sc.name, sc.config, sc.script)

Next ==
    \/ \E a \in Words : HostSubmit(a)
    \/ \E a \in Words : BlindSubmit(a)
    \/ ScriptSubmit
    \/ \E refresh_coming \in BOOLEAN, is_in_ref \in BOOLEAN :
           ClockTick(refresh_coming, is_in_ref)

Spec == Init /\ [][Next]_vars

InitRuns == \E sc \in RunScenarios : InitSystem(sc.name, sc.config, sc.script)

NextRuns ==
    \/ ScriptSubmit
    \/ \E refresh_coming \in BOOLEAN, is_in_ref \in BOOLEAN :
           ClockTick(refresh_coming, is_in_ref)

SpecRuns == InitRuns /\ [][NextRuns]_vars

\* One cut of one channel, K = 17 in K-tiles of 16: two passes through the phases.
KLoop == <<EncConfigure(0, 0, 0, 0, 0, 8)>> \o LoadCut(0, 1, 17, 1) \o <<EncCompute(1)>>

\* One cut, N = 130 in N-tiles of 128: the last N-tile is not full.
NTiles == <<EncConfigure(0, 0, 0, 0, 0, 8)>> \o LoadCut(0, 1, 1, 130) \o <<EncCompute(1)>>

\* One cut with df = 1, N = 129.
Dataflow1 == <<EncConfigure(0, 0, 0, 0, 1, 8)>> \o LoadCut(0, 1, 1, 129) \o <<EncCompute(1)>>

\* Two cuts (vcuts = 2) with mcf = 2, both loaded and selected.
TwoCutsMcf2 == <<EncConfigure(1, 0, 1, 0, 0, 8)>> \o LoadCut(0, 1, 1, 1) \o LoadCut(1, 1, 1, 1)
               \o <<EncCompute(3)>>

\* One cut of one channel, M = 258 in M-tiles of 256: the last M-tile is not full.
MTiles == <<EncConfigure(0, 0, 0, 0, 0, 8)>> \o LoadCut(0, 258, 1, 1) \o <<EncCompute(1)>>

\* Runs of the engine over several tiles, with df = 1, and with mc > 1.
TileScenarios ==
    {[name |-> "kloop", config |-> Config1x4, script |-> KLoop],
     [name |-> "ntiles", config |-> Config4x16, script |-> NTiles],
     [name |-> "mtiles", config |-> Config1x4, script |-> MTiles],
     [name |-> "df1", config |-> Config4x16, script |-> Dataflow1],
     [name |-> "mcf2", config |-> Config2x4, script |-> TwoCutsMcf2]}

InitTiles == \E sc \in TileScenarios : InitSystem(sc.name, sc.config, sc.script)

SpecTiles == InitTiles /\ [][NextRuns]_vars

\* Timings with a long write path: tRCDWR = 0, so an output wave takes
\* tCCD_L * (3 + 16) = 19 ticks, and a short read path (in_cnt is armed with 2).
ConfigLateWave == [Config4x16 EXCEPT !.tRCDWR = 0]

\* Runs over two N-tiles, with the wave arriving early and arriving late.
WaveScenarios ==
    {[name |-> "ntiles", config |-> Config4x16, script |-> NTiles],
     [name |-> "latewave", config |-> ConfigLateWave, script |-> NTiles]}

InitWaves == \E sc \in WaveScenarios : InitSystem(sc.name, sc.config, sc.script)

SpecWaves == InitWaves /\ [][NextRuns]_vars

\* ------------------------------------------------------------------ properties
\* A step that is a clock tick (a submission counts up host.nsub).
IsTick == host'.nsub = host.nsub

\* The kind of the word at the head of the queue, by the decoder's discriminators.
HeadIsCompute == pim_trans_queue_ # <<>> /\ Bit(Head(pim_trans_queue_), 0)
HeadIsConfigure ==
    /\ pim_trans_queue_ # <<>> /\ ~Bit(Head(pim_trans_queue_), 0)
    /\ Bit(Head(pim_trans_queue_), 5) /\ Bit(Head(pim_trans_queue_), 6)
HeadIsLoad == pim_trans_queue_ # <<>> /\ ~Bit(Head(pim_trans_queue_), 0) /\ ~HeadIsConfigure

\* The per-cut vectors exist for the current configuration.
HasCuts == vcuts # -1 /\ hcuts # -1 /\ Len(cs.M) = vcuts * hcuts

\* Cut i (from 0) has all three dimensions loaded.
Loaded(i) == At(cs.M, i) # 0 /\ At(cs.N, i) # 0 /\ At(cs.K, i) # 0

\* The cuts the Compute-Enable word at the head selects.
Selected == {i \in 0..(vcuts * hcuts - 1) : Bit(Shr(Head(pim_trans_queue_), 1), i)}

\* C1: a tick with a Compute-Enable word at the head sets in_pim for exactly the
\* selected cuts and removes the word if every selected cut has M, N and K loaded,
\* and otherwise leaves the word and in_pim alone; for every mask, also one that
\* selects only some of the configured cuts.
C1_ComputeEnableAnyMask ==
    [][(IsTick /\ aborted' = "none" /\ HeadIsCompute /\ HasCuts) =>
         IF \A i \in Selected : Loaded(i)
         THEN /\ pim_trans_queue_' = Tail(pim_trans_queue_)
              /\ dec'.c.in_pim = [k \in 1..Len(cs.in_pim) |->
                                    cs.in_pim[k] \/ (k - 1) \in Selected]
         ELSE /\ pim_trans_queue_' = pim_trans_queue_
              /\ dec'.c.in_pim = cs.in_pim]_vars

\* C2 as stated: every tick that starts with a non-empty queue (and does not end the
\* process) removes exactly one word.
C2_ExactlyOnePerTick ==
    [][(IsTick /\ aborted' = "none" /\ pim_trans_queue_ # <<>> /\ HasCuts) =>
         Len(pim_trans_queue_') = Len(pim_trans_queue_) - 1]_vars

\* C2, amended: a tick removes at most one word, and only the head; it removes a
\* Configure or Load at the head, and it removes a Compute-Enable at the head exactly
\* when every cut of the configuration is selected by the mask and has M, N and K
\* loaded; otherwise the Compute-Enable stays and the tick removes nothing.
C2_AtMostOnePerTick ==
    [][(IsTick /\ aborted' = "none" /\ pim_trans_queue_ # <<>>) =>
         /\ pim_trans_queue_' \in {pim_trans_queue_, Tail(pim_trans_queue_)}
         /\ ~HeadIsCompute => pim_trans_queue_' = Tail(pim_trans_queue_)
         /\ (HeadIsCompute /\ HasCuts) =>
               ((pim_trans_queue_' = Tail(pim_trans_queue_))
                  <=> \A i \in 0..(vcuts * hcuts - 1) : i \in Selected /\ Loaded(i))]_vars

\* A Compute-Enable has waited at the head of the queue of the run with two cuts of
\* which only cut 0 is loaded and selected.
C2_Witness == host.name = "partial" /\ dec.kind = "compute_wait" /\ HeadIsCompute

\* C3: WillAcceptTransaction() is true iff the queue holds fewer than
\* pim_trans_queue_depth_ words; the queue never holds more than that; the admission
\* assertion never fails for a host that submits only after WillAcceptTransaction()
\* returned true; after depth submissions with no tick in between it returns false.
C3_Admission ==
    /\ WillAcceptTransaction <=> Len(pim_trans_queue_) < pim_trans_queue_depth_
    /\ Len(pim_trans_queue_) <= pim_trans_queue_depth_
    /\ host.obeyed => aborted # "assert:144"
    /\ host.run >= pim_trans_queue_depth_ => ~WillAcceptTransaction

\* An obeying host has filled the queue with back-to-back submissions.
C3_Witness ==
    /\ host.obeyed /\ host.run = pim_trans_queue_depth_
    /\ Len(pim_trans_queue_) = pim_trans_queue_depth_ /\ aborted = "none"

\* C4: a tick removes at most one word and only the oldest one, which is the word
\* the decoder worked on; a submission appends at the tail; so the words take effect
\* in the order of their submission, also while a Compute-Enable waits at the head.
C4_Fifo ==
    [][IF IsTick
       THEN \/ pim_trans_queue_' = pim_trans_queue_
            \/ /\ pim_trans_queue_ # <<>>
               /\ pim_trans_queue_' = Tail(pim_trans_queue_)
               /\ dec'.word = Head(pim_trans_queue_)
       ELSE \/ pim_trans_queue_' = Append(pim_trans_queue_, host'.last)
            \/ pim_trans_queue_' = pim_trans_queue_ /\ aborted' = "assert:144"]_vars

\* A Compute-Enable waits at the head with a younger, different word queued behind it.
C4_Witness ==
    /\ dec.kind = "compute_wait" /\ HeadIsCompute /\ Len(pim_trans_queue_) = 2
    /\ pim_trans_queue_[2] # pim_trans_queue_[1]

\* The lengths of the per-cut vectors.
Lens(c) ==
    {Len(c.base_rows_w), Len(c.base_rows_in), Len(c.base_rows_out),
     Len(c.M), Len(c.N), Len(c.K), Len(c.M_it), Len(c.K_tile_it), Len(c.N_it),
     Len(c.M_out_it), Len(c.N_out_tile_it), Len(c.in_pim), Len(c.iw_status),
     Len(c.in_cnt), Len(c.out_cnt), Len(c.vpu_cnt), Len(c.in_act_placed),
     Len(c.w_act_placed), Len(c.out_act_placed), Len(c.output_valid)}

\* Every entry of the per-cut vectors is zero or false, and out_cnt is -1.
Zeroed(c) ==
    \A k \in 1..Len(c.M) :
        /\ c.base_rows_w[k] = 0 /\ c.base_rows_in[k] = 0 /\ c.base_rows_out[k] = 0
        /\ c.M[k] = 0 /\ c.N[k] = 0 /\ c.K[k] = 0
        /\ c.M_it[k] = 0 /\ c.K_tile_it[k] = 0 /\ c.N_it[k] = 0
        /\ c.M_out_it[k] = 0 /\ c.N_out_tile_it[k] = 0
        /\ ~c.in_pim[k] /\ c.iw_status[k] = 0 /\ c.in_cnt[k] = 0 /\ c.out_cnt[k] = -1
        /\ c.vpu_cnt[k] = 0 /\ ~c.in_act_placed[k] /\ ~c.w_act_placed[k]
        /\ ~c.out_act_placed[k] /\ c.output_valid[k] = 0

\* C5: after a tick that consumed a Configure word, from any engine state, every
\* per-cut vector has length vcuts * hcuts of the new configuration, with every
\* entry zero or false and out_cnt = -1; and in every running state after the first
\* Configure all per-cut vectors have the length vcuts * hcuts.
C5_ConfigureResets ==
    /\ (aborted = "none" /\ vcuts # -1) => Lens(cs) = {vcuts * hcuts}
    /\ (aborted = "none" /\ dec.kind = "configure") => Zeroed(cs)

\* A Configure to two cuts was consumed while a cut was in PIM mode.
C5_Witness ==
    /\ host.name = "reconfig" /\ dec.kind = "configure" /\ dec.busy
    /\ vcuts * hcuts = 2 /\ Len(cs.M) = 2

\* C6: once a Configure has been consumed, the wr_multitenant flag of every
\* controller is true iff the current vcuts * hcuts is greater than 1, also after a
\* Configure to one cut that follows a Configure to several cuts.
C6_MultitenantIffCuts ==
    (aborted = "none" /\ vcuts # -1) =>
        \A ch \in DOMAIN wr_multitenant : wr_multitenant[ch] <=> (vcuts * hcuts > 1)

\* The fields of the Load word at the head of the queue.
HeadLoad == LoadFields(Head(pim_trans_queue_))

\* C7: a tick that consumes a Load word for a cut of the configuration pops the
\* word and writes the base row and the dimension of that cut that loadType selects
\* (0: base_rows_w and M, 1: base_rows_out and K, 2: base_rows_in and N); the other
\* cuts, the other two pairs, the iterators, in_pim, iw_status and the configuration
\* are as before; a second identical Load changes none of these values.
C7_LoadFrame ==
    [][(IsTick /\ aborted' = "none" /\ HeadIsLoad /\ HeadLoad.cut_no < Len(cs.M)) =>
         /\ pim_trans_queue_' = Tail(pim_trans_queue_)
         /\ UNCHANGED cfgvars
         /\ dec'.c.M = IF HeadLoad.loadType = 0
                       THEN [cs.M EXCEPT ![HeadLoad.cut_no + 1] = HeadLoad.dim_value]
                       ELSE cs.M
         /\ dec'.c.base_rows_w =
                IF HeadLoad.loadType = 0
                THEN [cs.base_rows_w EXCEPT ![HeadLoad.cut_no + 1] = HeadLoad.base_row]
                ELSE cs.base_rows_w
         /\ dec'.c.K = IF HeadLoad.loadType = 1
                       THEN [cs.K EXCEPT ![HeadLoad.cut_no + 1] = HeadLoad.dim_value]
                       ELSE cs.K
         /\ dec'.c.base_rows_out =
                IF HeadLoad.loadType = 1
                THEN [cs.base_rows_out EXCEPT ![HeadLoad.cut_no + 1] = HeadLoad.base_row]
                ELSE cs.base_rows_out
         /\ dec'.c.N = IF HeadLoad.loadType = 2
                       THEN [cs.N EXCEPT ![HeadLoad.cut_no + 1] = HeadLoad.dim_value]
                       ELSE cs.N
         /\ dec'.c.base_rows_in =
                IF HeadLoad.loadType = 2
                THEN [cs.base_rows_in EXCEPT ![HeadLoad.cut_no + 1] = HeadLoad.base_row]
                ELSE cs.base_rows_in
         /\ dec'.c.M_it = cs.M_it /\ dec'.c.K_tile_it = cs.K_tile_it
         /\ dec'.c.N_it = cs.N_it /\ dec'.c.M_out_it = cs.M_out_it
         /\ dec'.c.N_out_tile_it = cs.N_out_tile_it
         /\ dec'.c.in_pim = cs.in_pim /\ dec'.c.iw_status = cs.iw_status
         /\ (dec.kind = "load" /\ dec.word = Head(pim_trans_queue_)) =>
               /\ dec'.c.M = cs.M /\ dec'.c.N = cs.N /\ dec'.c.K = cs.K
               /\ dec'.c.base_rows_w = cs.base_rows_w
               /\ dec'.c.base_rows_in = cs.base_rows_in
               /\ dec'.c.base_rows_out = cs.base_rows_out]_vars

\* The Load of K = 2 with base row 3 for cut 0 has been consumed, after the Load of
\* M and before any Load of N.
C7_Witness ==
    /\ dec.kind = "load" /\ dec.word = EncLoad(0, 1, 2, 3)
    /\ Len(cs.K) = 1 /\ cs.K[1] = 2 /\ cs.base_rows_out[1] = 3
    /\ cs.M[1] = 1 /\ cs.base_rows_w[1] = 1 /\ cs.N[1] = 0 /\ cs.base_rows_in[1] = 0

\* The loadType field of a word (bits 5 and 6).
LoadTypeOf(word) == Low(Shr(word, 5), 2)

\* The M_tile_size a word decodes to when it is read as a Configure (bits 18 to 21).
MtileOf(word) == Pow2(Low(Shr(word, 18), 4))

\* C8 as stated: a word that is no Compute-Enable and whose loadType field is not
\* 0, 1 or 2 ends the process when the decoder reaches it.
C8_UnknownLoadTypeFatal ==
    (dec.word # {} /\ ~Bit(dec.word, 0) /\ LoadTypeOf(dec.word) = 3) => aborted # "none"

\* C8, amended: the only fatal control word is a Configure whose Mtile field decodes
\* to more than 2048: it fails the assertion, so no running state has
\* M_tile_size > 2048. A word with loadType field 3 has bits 5 and 6 set and is
\* decoded as a Configure, never as a Load: it is applied as a Configure unless its
\* Mtile field is too large, and the exit of the Load's default case is never reached.
C8_OnlyMtileFatal ==
    /\ aborted = "none" => M_tile_size <= 2048
    /\ aborted # "AbruptExit:361"
    /\ dec.kind \in {"load", "load_oob"} => LoadTypeOf(dec.word) \in {0, 1, 2}
    /\ (dec.word # {} /\ ~Bit(dec.word, 0) /\ LoadTypeOf(dec.word) = 3) =>
          IF MtileOf(dec.word) > 2048
          THEN aborted = "assert:308" /\ dec.kind = "abort"
          ELSE aborted = "none" /\ dec.kind = "configure"
                 /\ M_tile_size = MtileOf(dec.word)

\* A Configure with M_tile_size = 4096 has failed the assertion.
C8_Witness ==
    /\ aborted = "assert:308" /\ dec.word = EncConfigure(0, 0, 0, 0, 0, 12)
    /\ M_tile_size = 4096

\* The Compute-Enable of the script has been consumed.
ComputeConsumed == host.script = <<>> /\ pim_trans_queue_ = <<>> /\ host.nsub > 0

\* C9 as stated (its safety part): in seed scenario 1 no assertion fails.
C9_Seed1NoAssertion == host.name = "seed1" => aborted = "none"

\* C9, amended: in seed scenario 1 the Compute-Enable sets in_pim[0], and in_pim[0]
\* never returns to false: M_tile_size = 16 is not greater than 128 / vcuts = 128, so
\* the first input read the controllers accept fails assert(M_tile_size > 128/vcuts),
\* before any input iterator has moved and before any output is scheduled.
C9_Seed1Asserts ==
    host.name = "seed1" =>
        /\ aborted \in {"none", "assert:563"}
        /\ ~cs.turn_off
        /\ ComputeConsumed => (Len(cs.in_pim) = 1 /\ cs.in_pim[1])
        /\ ComputeConsumed => (cs.M_it[1] = 0 /\ cs.out_cnt[1] = -1 /\ cs.output_valid[1] = 0
                         /\ cs.iw_status[1] \in {0, 1, 2})
        /\ aborted = "assert:563" => (ComputeConsumed /\ cs.iw_status[1] = 2 /\ cs.vpu_cnt[1] = 0)

\* Seed scenario 1 has run into the assertion of the input phase.
C9_Witness ==
    /\ host.name = "seed1" /\ aborted = "assert:563" /\ cs.in_pim[1]
    /\ M_tile_size = 16 /\ vcuts = 1 /\ hcuts = 1 /\ mcf = 1 /\ ucf = 1 /\ df = 0
    /\ cs.M[1] = 16 /\ cs.N[1] = 16 /\ cs.K[1] = 16
    /\ config_.channels = 4 /\ config_.banks = 16

\* The runs with one Configure and one Compute-Enable.
OneRun == host.name \in {sc.name : sc \in RunScenarios}

\* Cut k (from 1) exhausts its output in this step: M_out_it reaches M_out (= M, df = 0).
Exhausts(k) ==
    /\ IsTick /\ aborted' = "none" /\ Len(cs'.M) = Len(cs.M) /\ k \in 1..Len(cs.M)
    /\ cs.in_pim[k] /\ cs.M_out_it[k] < cs.M[k] /\ cs'.M_out_it[k] >= cs'.M[k]

\* C10: in the tick in which cut i exhausts its output, in_pim[i] is cleared, and
\* in_pim[i+1] too when cut_height < vcuts, and turn_off is true after the tick iff
\* no in_pim entry is true; over a run with one Configure and one Compute-Enable,
\* turn_off never returns to false, and it turns true only in a tick that clears the
\* last cut in PIM mode.
C10_EndOfCompute ==
    [][OneRun =>
         /\ \A k \in 1..Len(cs.M) :
              Exhausts(k) =>
                /\ ~cs'.in_pim[k]
                /\ CDiv(channels, hcuts) < vcuts => ~cs'.in_pim[k + 1]
                /\ cs'.turn_off <=> \A j \in 1..Len(cs'.in_pim) : ~cs'.in_pim[j]
         /\ cs.turn_off => cs'.turn_off
         /\ (~cs.turn_off /\ cs'.turn_off) =>
              /\ \E k \in 1..Len(cs.M) : Exhausts(k)
              /\ \A j \in 1..Len(cs'.in_pim) : ~cs'.in_pim[j]]_vars

\* Both cuts of the run with two cuts have exhausted their output, each on its own.
C10_Witness ==
    /\ host.name = "twocuts" /\ cs.turn_off /\ aborted = "none"
    /\ Len(cs.in_pim) = 2 /\ ~cs.in_pim[1] /\ ~cs.in_pim[2]
    /\ cs.M_out_it[1] >= cs.M[1] /\ cs.M_out_it[2] >= cs.M[2]

\* Cut k (from 1) is processed in State 2 by this tick: it is in PIM mode after the
\* decoder, not switched off by an earlier cut of the tick, and no refresh is ongoing.
Feeding(k) ==
    /\ IsTick /\ aborted' = "none" /\ k \in 1..Len(dec'.ready)
    /\ ~dec'.is_in_ref /\ dec'.c.in_pim[k] /\ cs'.in_pim[k] /\ dec'.c.iw_status[k] = 2

\* C11: with several cuts (vcuts * hcuts > 1), for every mcf and ucf, a cut in State 2
\* whose controllers return the asked command for every (j, k) of
\* [0, cut_height) x [0, mc) has its complete batch of cut_height * mc commands
\* accepted: the batch-size check does not discard it, so the cut can go on to State 3.
C11_CompleteInputBatchAccepted ==
    [][\A k \in 1..Len(cs'.in_pim) :
          (vcuts' * hcuts' > 1 /\ Feeding(k) /\ dec'.ready[k])
            => Len(cs'.rd_in_cmds_[k]) = CDiv(channels, hcuts') * mc']_vars

\* No lane of cut k (from 1) holds a command of the given kind after the tick.
NoneOfKind(k, kind) ==
    /\ \A p \in 1..Len(cs.rd_w_cmds_[k]) : cs.rd_w_cmds_[k][p].cmd_type # kind
    /\ \A p \in 1..Len(cs.rd_in_cmds_[k]) : cs.rd_in_cmds_[k][p].cmd_type # kind
    /\ \A p \in 1..Len(cs.wr_cmds_[k]) : cs.wr_cmds_[k][p].cmd_type # kind

PlacedNowhere(k) == ~cs.in_act_placed[k] /\ ~cs.w_act_placed[k] /\ ~cs.out_act_placed[k]

\* The last tick ran with wait_refresh and processed some cut in State 2.
RefreshWhileFeeding ==
    /\ dec.wait_refresh /\ aborted = "none" /\ ~dec.is_in_ref
    /\ \E k \in 1..Len(dec.c.in_pim) : dec.c.in_pim[k] /\ dec.c.iw_status[k] = 2

C13_PhaseOrder ==
    [][/\ \A k \in 1..Len(cs'.iw_status) : cs'.iw_status[k] \in 0..3
       /\ (IsTick /\ dec'.kind # "configure" /\ aborted' = "none") =>
             /\ Len(cs'.iw_status) = Len(cs.iw_status)
             /\ \A k \in 1..Len(cs.iw_status) :
                  cs'.iw_status[k] \in {cs.iw_status[k], (cs.iw_status[k] + 1) % 4}]_vars

\* A cut has been through the four phases and wrapped from State 3 to State 0 in the
\* last tick.
C13_Witness ==
    /\ aborted = "none" /\ dec.kind = "idle"
    /\ \E k \in 1..Len(cs.iw_status) :
         dec.c.in_pim[k] /\ dec.c.iw_status[k] = 3 /\ cs.iw_status[k] = 0

\* C14 (as stated): after every tick, 0 <= M_it[i] <= M[i] for every cut, also when
\* M is not a multiple of M_tile_size and after the cut has reached end of compute.
C14_MitWithinM ==
    \A k \in 1..Len(cs.M_it) : 0 <= cs.M_it[k] /\ cs.M_it[k] <= cs.M[k]

\* C14 (amended): after every tick of a run with one Configure and one Compute-Enable,
\* 0 <= M_it[i]; M_it[i] <= M[i] until the cut reaches end of compute (in_cnt = -1);
\* from then on M_it[i] is the first multiple of M_tile_size that is >= M[i].
C14_MitWithinTiles ==
    \A k \in 1..Len(cs.M_it) :
        /\ 0 <= cs.M_it[k]
        /\ cs.in_cnt[k] # -1 => cs.M_it[k] <= cs.M[k]
        /\ cs.in_cnt[k] = -1 =>
              /\ cs.M[k] <= cs.M_it[k] /\ cs.M_it[k] < cs.M[k] + M_tile_size
              /\ cs.M_it[k] % M_tile_size = 0

\* A cut whose M is more than one M-tile and not a multiple of M_tile_size has
\* reached end of compute.
C14_Witness ==
    /\ aborted = "none"
    /\ \E k \in 1..Len(cs.M_it) :
         /\ cs.in_cnt[k] = -1 /\ cs.M[k] > M_tile_size /\ cs.M[k] % M_tile_size # 0
         /\ cs.M_it[k] > cs.M[k]

\* int N_tile_size_per_bank of cut k (from 1), line 415, for N[k] > 0.
NTileSizePerBank(k) ==
    Min(cs.N[k], CDiv(CDiv(128, vcuts) - 1,
                      CDiv(CDiv(banks, vcuts), IF df = 1 THEN 16 ELSE 1)) + 1)

\* C15 (as stated): after every tick, 0 <= N_it[i] <= N[i] for every cut, also during
\* the weight fetch of the last N-tile when N is not a multiple of the N tile size.
C15_NitWithinN ==
    \A k \in 1..Len(cs.N_it) : 0 <= cs.N_it[k] /\ cs.N_it[k] <= cs.N[k]

\* C15 (amended): after every tick, for every cut with N loaded, 0 <= N_it[i], the
\* origin of the current N-tile is below N[i], and N_it[i] is less than
\* N_tile_size_per_bank above that origin.
C15_NitWithinTile ==
    \A k \in 1..Len(cs.N_it) :
        /\ 0 <= cs.N_it[k]
        /\ cs.N[k] > 0 =>
              /\ CDiv(128, vcuts) * CDiv(cs.N_it[k], CDiv(128, vcuts)) < cs.N[k]
              /\ CMod(cs.N_it[k], CDiv(128, vcuts)) < NTileSizePerBank(k)

\* The weight fetch of the last N-tile, which is not full, has counted N_it beyond N.
C15_Witness ==
    /\ aborted = "none"
    /\ \E k \in 1..Len(cs.N_it) :
         /\ cs.in_pim[k] /\ cs.iw_status[k] = 0 /\ cs.N[k] % CDiv(128, vcuts) # 0
         /\ cs.N_it[k] > cs.N[k] /\ cs.rd_w_cmds_[k] # <<>>

\* int K_tile_size of cut k (from 1), line 391.
KTileSize(k) == Min(CDiv(channels, hcuts) * 16, cs.K[k])

\* C16: in_cnt[i] and out_cnt[i] are each -1 or non-negative, and
\* K_tile_it[i] * K_tile_size <= K[i] + K_tile_size.
C16_CountersInRange ==
    \A k \in 1..Len(cs.in_cnt) :
        /\ cs.in_cnt[k] >= -1 /\ cs.out_cnt[k] >= -1
        /\ cs.K_tile_it[k] * KTileSize(k) <= cs.K[k] + KTileSize(k)

\* A cut counts down out_cnt after in_cnt was disarmed, in the second of several
\* K-tiles.
C16_Witness ==
    /\ aborted = "none"
    /\ \E k \in 1..Len(cs.in_cnt) :
         /\ cs.K_tile_it[k] > 0 /\ cs.K[k] > KTileSize(k)
         /\ cs.in_cnt[k] = 0 /\ cs.out_cnt[k] = -1 /\ cs.iw_status[k] = 0
    /\ \E k \in 1..Len(dec.c.in_cnt) : dec.c.in_cnt[k] > 0

\* C17: if w_act_placed[i] is true, the most recent batch cut i appended to the weight
\* lane is a PIM_ACTIVATE or PIM_READ batch: a tick that appends a precharging batch
\* (PRECHARGE or PIM_READ_PRECHARGE) for cut i leaves the flag false.
C17_PlacedMeansRowOpen ==
    \A k \in 1..Len(cs.w_act_placed) :
        (aborted = "none" /\ cs.w_act_placed[k] /\ cs.rd_w_cmds_[k] # <<>>)
          => \A p \in 1..Len(cs.rd_w_cmds_[k]) :
                 cs.rd_w_cmds_[k][p].cmd_type \in {"PIM_ACTIVATE", "PIM_READ"}

\* C18: the end-of-compute assertion never fails: over a run of one Configure, Loads
\* with non-zero M, N and K for every cut and one Compute-Enable, for every behaviour
\* of the controllers and for df = 0 and df = 1, whenever the write-back of a cut
\* reaches exhaustion (M_out_it >= M_out) in_cnt[i] is -1.
C18_EndAssertionHolds == aborted # "assert:746"

\* The batch is complete and of one kind: n commands of the kind of the first.
Atomic(batch, n) ==
    Len(batch) = n /\ \A p \in 1..Len(batch) : batch[p].cmd_type = batch[1].cmd_type

\* C19: every input batch appended to rd_in_cmds_ is atomic and homogeneous: it holds
\* one ready command for every (j, k) of [0, cut_height) x [0, mc), all of one kind;
\* otherwise nothing is appended for that cut in that tick.
C19_InputBatchAtomic ==
    \A k \in 1..Len(cs.rd_in_cmds_) :
        (aborted = "none" /\ cs.rd_in_cmds_[k] # <<>>)
          => Atomic(cs.rd_in_cmds_[k], CDiv(channels, hcuts) * mc)

\* The sizes of a complete weight batch (lines 417-418) and of a complete output
\* batch (lines 689-694).
WeightBatchSize ==
    CDiv(channels, hcuts) * CDiv(CDiv(banks, vcuts), IF df = 1 THEN 16 ELSE 1)

OutputBatchSize ==
    Max(1, CDiv(CDiv(channels, hcuts), vcuts)) * (IF df = 1 THEN 1 ELSE mc)

\* C20: every weight batch appended to rd_w_cmds_ holds exactly
\* cut_height * (cut_width / weight_banks_reduce) commands of one kind, and every
\* output batch appended to wr_cmds_ exactly max(1, cut_height / vcuts) * k_bound
\* commands of one kind; if a controller returned an invalid command or a kind
\* different from the first, nothing is appended to that lane for that cut in that
\* tick (so a batch of the asked reads or writes means every answer was as asked).
C20_WeightOutputBatchAtomic ==
    aborted = "none" =>
      \A k \in 1..Len(cs.rd_w_cmds_) :
        /\ cs.rd_w_cmds_[k] # <<>> =>
             /\ Atomic(cs.rd_w_cmds_[k], WeightBatchSize)
             /\ cs.rd_w_cmds_[k][1].cmd_type # "INVALID"
             /\ cs.rd_w_cmds_[k][1].cmd_type \in {"PIM_READ", "PIM_READ_PRECHARGE"}
                  => dec.ready[k]
        /\ cs.wr_cmds_[k] # <<>> =>
             /\ Atomic(cs.wr_cmds_[k], OutputBatchSize)
             /\ cs.wr_cmds_[k][1].cmd_type # "INVALID"
             /\ cs.wr_cmds_[k][1].cmd_type \in {"PIM_WRITE", "PIM_WRITE_PRECHARGE"}
                  => dec.ready[k]

\* In one tick a cut appended a complete batch of weight reads and another cut a
\* complete batch of output writes, each of more than one command.
C20_Witness ==
    /\ aborted = "none"
    /\ \E k \in 1..Len(cs.rd_w_cmds_) :
         /\ Len(cs.rd_w_cmds_[k]) > 1
         /\ cs.rd_w_cmds_[k][1].cmd_type \in {"PIM_READ", "PIM_READ_PRECHARGE"}
    /\ \E k \in 1..Len(cs.wr_cmds_) :
         /\ Len(cs.wr_cmds_[k]) > 1
         /\ cs.wr_cmds_[k][1].cmd_type \in {"PIM_WRITE", "PIM_WRITE_PRECHARGE"}

\* The batch holds a command of the given kind.
HasKind(batch, kind) == \E p \in 1..Len(batch) : batch[p].cmd_type = kind

C22_PrechargeSuppressed ==
    (aborted = "none" /\ df = 1) =>
      \A k \in 1..Len(cs.rd_w_cmds_) : ~HasKind(cs.rd_w_cmds_[k], "PRECHARGE")

\* C22 (amended): with df = 1, a weight batch whose ready kind is PRECHARGE is not
\* counted: N_it[i] and iw_status[i] are unchanged by the tick; the batch itself is
\* appended to rd_w_cmds_.
C22_PrechargeNotCounted ==
    (aborted = "none" /\ df = 1) =>
      \A k \in 1..Len(cs.rd_w_cmds_) :
        HasKind(cs.rd_w_cmds_[k], "PRECHARGE") =>
          /\ cs.N_it[k] = dec.c.N_it[k] /\ cs.iw_status[k] = dec.c.iw_status[k]
          /\ Atomic(cs.rd_w_cmds_[k], WeightBatchSize)

\* With df = 1 a batch of PRECHARGE commands was appended to the weight lane after
\* some weights had been read.
C22_Witness ==
    /\ aborted = "none" /\ df = 1
    /\ \E k \in 1..Len(cs.rd_w_cmds_) :
         /\ HasKind(cs.rd_w_cmds_[k], "PRECHARGE")
         /\ cs.iw_status[k] = 0 /\ cs.N_it[k] > 0

\* cut_height < vcuts: cut i and cut i + 1 share the output bookkeeping (lines 749, 763).
Paired == CDiv(channels, hcuts) < vcuts

\* Cut k (from 1) was in State 3 when the last tick processed it (output_ready).
OutputReady(k) == dec.c.in_pim[k] /\ ~dec.is_in_ref /\ dec.c.iw_status[k] = 3

\* C23: a cut advances its write-back only while its phase is 3: cut i appends an
\* output batch, changes M_out_it[i] or N_out_tile_it[i], or decrements output_valid
\* (its own and, for paired cuts, that of cut i + 1) only in a tick in which
\* iw_status[i] = 3 when the cut is processed; otherwise the write-back iterators are
\* unchanged and nothing is written.
C23_WriteBackInPhase3 ==
    aborted = "none" =>
      \A k \in 1..Len(cs.in_pim) :
        /\ ~OutputReady(k) =>
             /\ cs.wr_cmds_[k] = <<>>
             /\ cs.M_out_it[k] = dec.c.M_out_it[k]
             /\ cs.N_out_tile_it[k] = dec.c.N_out_tile_it[k]
        /\ cs.output_valid[k] < dec.c.output_valid[k] =>
             \/ OutputReady(k) /\ cs.wr_cmds_[k] # <<>>
             \/ Paired /\ k > 1 /\ OutputReady(k - 1) /\ cs.wr_cmds_[k - 1] # <<>>

\* A cut wrote an output batch in the tick in which it left State 3 for State 0.
C23_Witness ==
    /\ aborted = "none"
    /\ \E k \in 1..Len(cs.in_pim) :
         /\ OutputReady(k) /\ cs.iw_status[k] = 0
         /\ HasKind(cs.wr_cmds_[k], "PIM_WRITE_PRECHARGE")
         /\ cs.output_valid[k] < dec.c.output_valid[k] + 1

\* The phase that cut k (from 1) had when the last tick processed it, or -1 when the
\* engine skipped the cut (not in PIM mode, or a controller in refresh).
PhaseAtProcessing(k) ==
    IF dec.c.in_pim[k] /\ ~dec.is_in_ref THEN dec.c.iw_status[k] ELSE -1

\* The lanes of cut k (from 1) that received commands in the last tick.
LanesUsed(k) ==
    {l \in {"w", "in", "out"} :
        \/ l = "w" /\ cs.rd_w_cmds_[k] # <<>>
        \/ l = "in" /\ cs.rd_in_cmds_[k] # <<>>
        \/ l = "out" /\ cs.wr_cmds_[k] # <<>>}

\* C24: in every tick and for every cut at most one of the three lanes receives
\* commands from that cut: the weight lane only when iw_status = 0, the input lane only
\* when iw_status = 2, the output lane only when iw_status = 3 at processing time.
\* Cuts are processed in ascending order: a cut switched off in this tick by the
\* write-back of its lower neighbour appends nothing in this tick.
C24_OneLanePerCut ==
    aborted = "none" =>
      \A k \in 1..Len(cs.in_pim) :
        /\ Cardinality(LanesUsed(k)) <= 1
        /\ "w" \in LanesUsed(k) => PhaseAtProcessing(k) = 0
        /\ "in" \in LanesUsed(k) => PhaseAtProcessing(k) = 2
        /\ "out" \in LanesUsed(k) => PhaseAtProcessing(k) = 3
        /\ (Paired /\ k > 1 /\ dec.c.in_pim[k] /\ ~cs.in_pim[k]) => LanesUsed(k) = {}

\* Two cuts fed different lanes in one tick: one its input lane, the other its weight
\* lane or its output lane.
C24_Witness ==
    /\ aborted = "none"
    /\ \E k, m \in 1..Len(cs.in_pim) :
         /\ LanesUsed(k) = {"in"} /\ PhaseAtProcessing(k) = 2
         /\ LanesUsed(m) \in {{"w"}, {"out"}}

\* C25: in a tick in which some controller is in refresh (IsInRef or
\* pim_refresh_coming2) the cut engine does no work: no command is appended to any
\* lane and no cut's iterators, iw_status, in_cnt, out_cnt, vpu_cnt, output_valid,
\* in_pim or placement flags differ from what the decoder and the wait_refresh flag
\* reset left.
C25_RefreshFreezesEngine ==
    (aborted = "none" /\ dec.is_in_ref) =>
      /\ Snapshot(cs) = dec.c
      /\ \A k \in 1..Len(cs.rd_w_cmds_) :
           cs.rd_w_cmds_[k] = <<>> /\ cs.rd_in_cmds_[k] = <<>> /\ cs.wr_cmds_[k] = <<>>

\* A controller is in refresh while a cut in PIM mode reads input with its output
\* countdown running.
C25_Witness ==
    /\ aborted = "none" /\ dec.is_in_ref
    /\ \E k \in 1..Len(cs.in_pim) :
         /\ cs.in_pim[k] /\ cs.iw_status[k] = 2 /\ cs.out_cnt[k] >= 0
         /\ cs.M_it[k] > 0

\* The last tick processed cut k (from 1), the cut built a batch for the lane of its
\* phase, and nothing of it was appended: the batch was discarded.
Discarded(k) ==
    /\ cs.in_pim[k]
    /\ \/ PhaseAtProcessing(k) = 0 /\ cs.rd_w_cmds_[k] = <<>>
       \/ PhaseAtProcessing(k) = 2 /\ cs.rd_in_cmds_[k] = <<>>
       \/ /\ PhaseAtProcessing(k) = 3 /\ ~Paired /\ cs.wr_cmds_[k] = <<>>
          /\ dec.c.output_valid[k] > 0 \/ dec.c.out_cnt[k] = 0

\* The iterators of cut k (from 1) are what they were when the cut was processed.
IteratorsKept(k) ==
    /\ cs.M_it[k] = dec.c.M_it[k] /\ cs.N_it[k] = dec.c.N_it[k]
    /\ cs.K_tile_it[k] = dec.c.K_tile_it[k]
    /\ cs.M_out_it[k] = dec.c.M_out_it[k] /\ cs.N_out_tile_it[k] = dec.c.N_out_tile_it[k]

\* The placement flags of cut k (from 1) are what the wait_refresh reset left.
FlagsKept(k) ==
    /\ cs.w_act_placed[k] = dec.c.w_act_placed[k]
    /\ cs.in_act_placed[k] = dec.c.in_act_placed[k]
    /\ cs.out_act_placed[k] = dec.c.out_act_placed[k]

\* An iterator of cut k (from 1) moves only with a batch appended to its lane.
AdvanceNeedsBatch(k) ==
    /\ (cs.M_it[k] # dec.c.M_it[k] \/ cs.K_tile_it[k] # dec.c.K_tile_it[k])
         => cs.rd_in_cmds_[k] # <<>>
    /\ cs.N_it[k] # dec.c.N_it[k] => (cs.rd_w_cmds_[k] # <<>> \/ cs.rd_in_cmds_[k] # <<>>)
    /\ (cs.M_out_it[k] # dec.c.M_out_it[k] \/ cs.N_out_tile_it[k] # dec.c.N_out_tile_it[k])
         => cs.wr_cmds_[k] # <<>>

\* C26 as stated: whenever cut i's batch for a lane is discarded, its iterators,
\* iw_status, in_cnt, output_valid, in_pim and placement flags have the same values
\* after processing as before (flags cleared by wait_refresh apart), and an iterator
\* advances only in a tick in which a batch of its lane was appended.
C26_DiscardKeepsEverything ==
    aborted = "none" =>
      \A k \in 1..Len(cs.in_pim) :
        /\ AdvanceNeedsBatch(k)
        /\ Discarded(k) =>
             /\ IteratorsKept(k) /\ FlagsKept(k)
             /\ cs.iw_status[k] = dec.c.iw_status[k] /\ cs.in_cnt[k] = dec.c.in_cnt[k]
             /\ cs.output_valid[k] = dec.c.output_valid[k]
             /\ cs.in_pim[k] = dec.c.in_pim[k]

\* C26, amended: a discarded batch leaves the cut's iterators, placement flags and
\* in_pim as they were, and in phases 0 and 2 also iw_status and in_cnt; the timers run
\* all the same: output_valid grows by one when out_cnt was 0, and in phase 3 in_cnt
\* counts down and iw_status may pass to 0.  An iterator advances only in a tick in
\* which a batch of its lane was appended.
C26_DiscardKeepsIterators ==
    aborted = "none" =>
      \A k \in 1..Len(cs.in_pim) :
        /\ AdvanceNeedsBatch(k)
        /\ Discarded(k) =>
             /\ IteratorsKept(k) /\ FlagsKept(k)
             /\ cs.in_pim[k] = dec.c.in_pim[k]
             /\ PhaseAtProcessing(k) \in {0, 2} =>
                  cs.iw_status[k] = dec.c.iw_status[k] /\ cs.in_cnt[k] = dec.c.in_cnt[k]
             /\ PhaseAtProcessing(k) = 3 =>
                  /\ cs.iw_status[k] \in {3, 0}
                  /\ cs.in_cnt[k] \in {dec.c.in_cnt[k], dec.c.in_cnt[k] - 1}
             /\ cs.output_valid[k] =
                  dec.c.output_valid[k] + (IF dec.c.out_cnt[k] = 0 THEN 1 ELSE 0)

\* A cut's batch of reads was discarded in the tick in which its output countdown
\* ended: the iterators stayed and output_valid went up.
C26_Witness ==
    /\ aborted = "none"
    /\ \E k \in 1..Len(cs.in_pim) :
         /\ Discarded(k) /\ PhaseAtProcessing(k) = 2 /\ dec.c.out_cnt[k] = 0
         /\ cs.output_valid[k] = dec.c.output_valid[k] + 1
         /\ cs.M_it[k] = dec.c.M_it[k]

\* C27: no scheduled output wave is lost: out_cnt[i] is armed only when it is -1,
\* never while a countdown is running; a running countdown (out_cnt[i] >= 0 when the
\* cut is processed) only stays or goes down by one in a tick.
C27_ArmedOnlyWhenIdle ==
    aborted = "none" =>
      \A k \in 1..Len(cs.out_cnt) :
        dec.c.out_cnt[k] >= 0 =>
          cs.out_cnt[k] \in {dec.c.out_cnt[k], dec.c.out_cnt[k] - 1}

\* C28: output_valid[i] >= 0 in every reachable state and for every cut, the paired
\* cut i + 1 that cut i's write-back decrements when cut_height < vcuts included.
C28_OutputValidNonNegative ==
    \A k \in 1..Len(cs.output_valid) : cs.output_valid[k] >= 0

\* Every command of the batch addresses an existing channel and an existing bank.
Addressable(batch) ==
    \A p \in 1..Len(batch) :
      /\ batch[p].channel \in 0..(channels - 1)
      /\ batch[p].bankgroup * banks_per_group + batch[p].bank \in 0..(banks - 1)

\* C29: the decoder and the engine never index a per-cut vector outside its bounds and
\* never address a channel or bank that does not exist: a Load's cut_no and a
\* Compute-Enable's mask are applied to existing cuts only (before any Configure too),
\* and every command appended has its channel in [0, channels) and its bank in
\* [0, banks).
C29_IndicesInBounds ==
    /\ aborted \notin {"UB:244", "UB:346", "UB:704"}
    /\ dec.kind # "load_oob"
    /\ \A k \in 1..Len(cs.rd_w_cmds_) :
         Addressable(cs.rd_w_cmds_[k]) /\ Addressable(cs.rd_in_cmds_[k])
         /\ Addressable(cs.wr_cmds_[k])
====
